---- MODULE Spec2Model ----
(***************************************************************************)
(* vite-plugin-shopify-assets: option resolution, the build plugin (the    *)
(* bundle-listing variant of build.ts and the manifest-listing variant),   *)
(* and the serve plugin, over an abstract file system.                     *)
(*                                                                         *)
(* Paths are sequences of segments ('a/b' is <<"a","b">>); every resolved  *)
(* path is absolute.  A source glob is kept as one opaque segment and is   *)
(* given meaning by PatternMatches (fast-glob / picomatch are external).   *)
(* A file on disk is a record [dir, name, ext].                            *)
(***************************************************************************)
EXTENDS Integers, Sequences, FiniteSets, Bags, TLC

VARIABLES
    options,        \* the user's plugin options (argument of resolveOptions)
    resolved,       \* the ResolvedPluginShopifyAssetsOptions (or the thrown error)
    host,           \* host configuration: watchMode, emptyOutDir
    pc,             \* lifecycle position of the plugin
    cycle,          \* number of build cycles started
    clean,          \* let clean: boolean
    bundle,         \* the bundle the host build generated in this cycle
    srcFS,          \* source files present on disk
    destFS,         \* destination path -> content (absent, or where it came from)
    assetMap,       \* Map<string, ResolvedTarget>, in insertion order
    assetDirSet,    \* Set of watched source directories
    assetDestSet,   \* Set of claimed destination paths
    assetFilesSet,  \* Set of protected basenames
    pending,        \* bag of file operations issued and not yet settled
    rejected,       \* the Promise.all the running hook awaits has rejected
    log,            \* bag of log records
    unnotified,     \* deleted source files whose notification is not yet delivered
    scanned,        \* the (rule, file) pairs the last buildStart got from fast-glob
    handled,        \* the (source, destination) pairs whose deletion watchChange handled
    manifestFile,   \* let manifestFile: string | undefined (manifest-listing variant)
    filesToDelete,  \* the files whose removal the running hook awaits, as listed
    targetIndex,    \* the target the serve plugin's buildStart loop is at
    built,          \* the Asset Map and Dedup Set the last buildStart yielded
    validFiles      \* the files getFilesInManifest returned

vars == <<options, resolved, host, pc, cycle, clean, bundle, srcFS, destFS, assetMap,
          assetDirSet, assetDestSet, assetFilesSet, pending, rejected, log, unnotified,
          scanned, handled, manifestFile, filesToDelete, targetIndex, built,
          validFiles>>

-----------------------------------------------------------------------------
(* Paths (node:path join / resolve / basename / dirname / parse)           *)

Undefined == <<>>

THEME_ASSETS_DIRNAME == <<"assets">>

Cwd == <<"proj">>

RECURSIVE NormalizeFrom(_, _)
NormalizeFrom(done, rest) ==
    IF rest = <<>> THEN done
    ELSE LET s == Head(rest) IN
         IF s = "." \/ s = "" THEN NormalizeFrom(done, Tail(rest))
         ELSE IF s = ".."
              THEN NormalizeFrom(IF done = <<>> THEN done
                                 ELSE SubSeq(done, 1, Len(done) - 1), Tail(rest))
              ELSE NormalizeFrom(Append(done, s), Tail(rest))

\* path.normalize on an absolute path
Normalize(p) == NormalizeFrom(<<>>, p)

\* path.join(a, b): concatenate, then normalize
Join(a, b) == Normalize(a \o b)

\* path.resolve(rel) against the working directory
Resolve(rel) == Normalize(Cwd \o rel)

\* segments that contain glob magic (fg.isDynamicPattern looks for these)
DynamicSegments == {"*", "**", "*.*", "snip*", "icon-*.liquid"}

IsDynamicPattern(p) == \E i \in 1..Len(p) : p[i] \in DynamicSegments

-----------------------------------------------------------------------------
(* resolveOptions / resolveCleanMatch (options.ts)                         *)

GenericCleanMatch == { <<"**", "*">>, <<"**", "*.*">>, <<"**">>, <<"*">>, <<"*.*">> }

TooGenericBuggy(cleanMatch) == cleanMatch \in (GenericCleanMatch \ { <<"**", "*.*">> })

\* options.ts 272-279: the reserved match-everything forms
TooGeneric(cleanMatch) == cleanMatch \in GenericCleanMatch

\* options.ts 263: dest unset, or literally the default directory name
DefaultDest(target) == target.dest = Undefined \/ target.dest = THEME_ASSETS_DIRNAME

\* which branch of resolveCleanMatch returns
CleanMatchCase(target) ==
    IF target.cleanMatch = Undefined THEN "unset"
    ELSE IF DefaultDest(target) THEN "defaultDest"
    ELSE IF TooGeneric(target.cleanMatch) THEN "generic"
    ELSE "accepted"

resolveCleanMatch(themeRoot, target, silent) ==
    IF CleanMatchCase(target) = "accepted"
    THEN Join(Join(themeRoot, target.dest), target.cleanMatch)
    ELSE Undefined

\* the console.warn calls of resolveCleanMatch
CleanMatchWarnings(target, silent) ==
    IF ~silent /\ CleanMatchCase(target) \in {"defaultDest", "generic"}
    THEN {CleanMatchCase(target)} ELSE {}

\* the option read without its default
OrFalsy(v, d) == v = "true"

\* options.ts 234, 237, 244-247: v ?? d
OrDefault(v, d) == IF v = "undefined" THEN d ELSE v = "true"

resolveTarget(publicDir, themeRoot, themeAssetsDir, target, silent) ==
    IF target.kind = "string"
    THEN [src |-> Join(publicDir, <<target.src>>),
          dest |-> Normalize(themeAssetsDir),
          cleanMatch |-> Undefined,
          ignore |-> {},
          rename |-> "none",
          dereference |-> TRUE,
          errorOnExist |-> FALSE,
          force |-> TRUE,
          mode |-> 0,
          preserveTimestamps |-> TRUE]
    ELSE [src |-> Join(publicDir, <<target.src>>),
          dest |-> IF target.dest # Undefined THEN Join(themeRoot, target.dest)
                   ELSE themeAssetsDir,
          cleanMatch |-> resolveCleanMatch(themeRoot, target, silent),
          ignore |-> { Join(publicDir, <<g>>) : g \in target.ignore },
          rename |-> target.rename,
          dereference |-> OrDefault(target.dereference, TRUE),
          errorOnExist |-> (target.force = "error"),
          force |-> (target.force # "error"),
          mode |-> IF target.force = "error" THEN 1 ELSE 0,
          preserveTimestamps |-> OrDefault(target.preserveTimestamps, TRUE)]

\* the check applied to the wrong field
ThrowsDynamicCleanMatch(target) ==
    target.kind = "object" /\ target.cleanMatch # Undefined
    /\ IsDynamicPattern(target.cleanMatch)

\* options.ts 216-218
ThrowsDynamicDest(target) ==
    target.kind = "object" /\ target.dest # Undefined /\ IsDynamicPattern(target.dest)

resolveOptions(opts) ==
    LET publicDir == Resolve(opts.publicDir)
        themeRoot == Resolve(opts.themeRoot)
        themeAssetsDir == Join(themeRoot, THEME_ASSETS_DIRNAME)
        silent == OrDefault(opts.silent, TRUE)
    IN  IF \E i \in 1..Len(opts.targets) : ThrowsDynamicDest(opts.targets[i])
        THEN [status |-> "error"]
        ELSE [status |-> "ok",
              publicDir |-> publicDir,
              themeRoot |-> themeRoot,
              themeAssetsDir |-> themeAssetsDir,
              targets |-> [i \in 1..Len(opts.targets) |->
                             resolveTarget(publicDir, themeRoot, themeAssetsDir,
                                           opts.targets[i], silent)],
              warnings |-> UNION { CleanMatchWarnings(opts.targets[i], silent) :
                                     i \in { j \in 1..Len(opts.targets) :
                                               opts.targets[j].kind = "object" } },
              onServe |-> OrDefault(opts.onServe, TRUE),
              onBuild |-> OrDefault(opts.onBuild, TRUE),
              onWatch |-> OrDefault(opts.onWatch, TRUE),
              silent |-> silent]

-----------------------------------------------------------------------------
(* Files, globs and renaming                                               *)

File(dir, name, ext) == [dir |-> dir, name |-> name, ext |-> ext]

\* basename(file) / parse(file).base
Basename(f) == [name |-> f.name, ext |-> f.ext]

\* dirname(file)
Dirname(f) == f.dir

\* resolve(dir, fileName)
ResolveIn(dir, base) == File(Normalize(dir), base.name, base.ext)

\* file names that begin with 'icon-'
IconNames == {"icon-a", "icon-b", "icon-old"}

\* what a glob pattern (one opaque segment) matches below its base directory:
\* sub is the file's directory relative to the base, name.ext its basename
PatternMatches(pattern, sub, name, ext) ==
    CASE pattern = "images/*.png"     -> sub = <<"images">> /\ ext = "png"
      [] pattern = "other/*.png"      -> sub = <<"other">> /\ ext = "png"
      [] pattern = "**/*.png"         -> ext = "png"
      [] pattern = "icons/icon-*.svg" -> sub = <<"icons">> /\ ext = "svg" /\ name \in IconNames
      [] pattern = "icons/icon-a.svg" -> sub = <<"icons">> /\ ext = "svg" /\ name = "icon-a"
      [] pattern = "other/**"         -> Len(sub) >= 1 /\ sub[1] = "other"
      [] pattern = "icon-*.liquid"    -> sub = <<>> /\ ext = "liquid" /\ name \in IconNames
      [] OTHER                        -> FALSE

IsPrefix(a, b) == Len(a) <= Len(b) /\ SubSeq(b, 1, Len(a)) = a

\* does the absolute glob (base directory + pattern segment) match the file
GlobMatches(glob, f) ==
    /\ glob # <<>>
    /\ LET base == SubSeq(glob, 1, Len(glob) - 1)
       IN  /\ IsPrefix(base, f.dir)
           /\ PatternMatches(glob[Len(glob)], SubSeq(f.dir, Len(base) + 1, Len(f.dir)),
                             f.name, f.ext)

\* is the path given to the rename function one of a file below directory d
\* (a bare base name has no directory)
SrcUnder(src, d) == "dir" \in DOMAIN src /\ \E k \in 1..Len(src.dir) : src.dir[k] = d

\* the rename functions a rule may carry: rename(name, ext, src);
\* "iconsToLiquid" is (name, ext, src) =>
\*     src.includes('/icons/') ? `${name}.liquid` : `${name}.${ext}`
RenameFunc(rename, name, ext, src) ==
    CASE rename = "liquid" -> [name |-> name, ext |-> "liquid"]
      [] rename = "iconsToLiquid" ->
            [name |-> name, ext |-> IF SrcUnder(src, "icons") THEN "liquid" ELSE ext]
      [] OTHER             -> [name |-> name, ext |-> ext]

\* a rename given as a string
RenameString == [name |-> "logo", ext |-> "png"]

\* utils.ts 112-119
renameFile(file, src, rename) ==
    IF rename = "fixed" THEN RenameString
    ELSE RenameFunc(rename, file.name, file.ext, src)

-----------------------------------------------------------------------------
(* The option values explored                                              *)

MaxTargets == 2

PublicDirOption == <<"frontend", "assets">>
ThemeRootOption == <<"theme">>

StringTarget(src) ==
    [kind |-> "string", src |-> src, dest |-> Undefined, cleanMatch |-> Undefined,
     ignore |-> {}, rename |-> "none", force |-> "undefined",
     dereference |-> "undefined", preserveTimestamps |-> "undefined"]

ObjectTarget(src, dest, cleanMatch, ignore, rename) ==
    [kind |-> "object", src |-> src, dest |-> dest, cleanMatch |-> cleanMatch,
     ignore |-> ignore, rename |-> rename, force |-> "undefined",
     dereference |-> "undefined", preserveTimestamps |-> "undefined"]

\* options.ts 111: force?: boolean | 'error'
WithForce(target, force) == [target EXCEPT !.force = force]

PluginOptions(targets, onBuild, onWatch, silent) ==
    [publicDir |-> PublicDirOption, themeRoot |-> ThemeRootOption, targets |-> targets,
     onServe |-> "undefined", onBuild |-> onBuild, onWatch |-> onWatch, silent |-> silent]

\* the ways a user can write target.dest
DestForms == { Undefined, <<"assets">>, <<".", "assets">>, <<"snippets">>,
               <<"snippets", "..", "assets">>, <<"snip*">> }

CleanMatchForms == GenericCleanMatch \cup { Undefined, <<"icon-*.liquid">> }

AnyTarget ==
    { StringTarget("images/*.png") } \cup
    { ObjectTarget("icons/icon-*.svg", d, c, i, r) :
        d \in DestForms, c \in CleanMatchForms, i \in { {}, {"other/**"} },
        r \in {"none", "liquid"} }

\* targets combined into longer lists
CoreTargets ==
    { StringTarget("images/*.png"),
      ObjectTarget("icons/icon-*.svg", <<"snippets">>, <<"icon-*.liquid">>, {}, "liquid"),
      ObjectTarget("icons/icon-*.svg", <<".", "assets">>, <<"icon-*.liquid">>, {}, "none"),
      ObjectTarget("icons/icon-*.svg", <<"snippets">>, <<"**", "*">>, {}, "none"),
      ObjectTarget("icons/icon-*.svg", <<"snip*">>, Undefined, {}, "none") }

TargetLists ==
    { <<t>> : t \in AnyTarget } \cup
    UNION { [1..n -> CoreTargets] : n \in 2..MaxTargets }

NotResolved == [status |-> "pending"]

-----------------------------------------------------------------------------
(* OptionsSpec: resolveOptions applied to every option value               *)

Idle ==
    /\ host = [watchMode |-> FALSE, emptyOutDir |-> TRUE]
    /\ pc = "options"
    /\ cycle = 0
    /\ srcFS = {}
    /\ destFS = <<>>
    /\ assetMap = <<>>
    /\ assetDirSet = {}
    /\ assetDestSet = {}
    /\ assetFilesSet = {}
    /\ clean = FALSE
    /\ bundle = {}
    /\ pending = EmptyBag
    /\ rejected = FALSE
    /\ log = EmptyBag
    /\ unnotified = {}
    /\ scanned = <<>>
    /\ handled = {}
    /\ manifestFile = Undefined
    /\ filesToDelete = EmptyBag
    /\ targetIndex = 0
    /\ built = [map |-> <<>>, dests |-> {}]
    /\ validFiles = {}

OptionsInit ==
    /\ options \in { PluginOptions(ts, "undefined", "undefined", s) :
                       ts \in TargetLists, s \in {"undefined", "true", "false"} }
    /\ resolved = NotResolved
    /\ Idle

\* index.ts 9: const resolvedOptions = resolveOptions(options)
ResolveOptions ==
    /\ pc = "options"
    /\ resolved = NotResolved
    /\ resolved' = resolveOptions(options)
    /\ pc' = "constructed"
    /\ UNCHANGED <<options, built, validFiles, host, cycle, clean, bundle, srcFS, destFS, assetMap,
                   assetDirSet, assetDestSet, assetFilesSet, pending, rejected, log,
                   unnotified, scanned, handled, manifestFile, filesToDelete, targetIndex>>

OptionsNext == ResolveOptions

OptionsSpec == OptionsInit /\ [][OptionsNext]_vars

-----------------------------------------------------------------------------
(* The file system                                                         *)

NoFile == File(<<>>, "", "")

\* a directory, as the path of a log record
Dir(path) == File(path, "", "")

SourceDir(sub) == Resolve(PublicDirOption) \o <<sub>>

\* the source files there can be, in the order fast-glob returns them
SourceOrder ==
    << File(SourceDir("icons"), "icon-a", "svg"),
       File(SourceDir("icons"), "icon-b", "svg"),
       File(SourceDir("images"), "a", "png"),
       File(SourceDir("other"), "a", "png") >>

AllSources == { SourceOrder[i] : i \in 1..Len(SourceOrder) }

AssetsDir == Join(Resolve(ThemeRootOption), THEME_ASSETS_DIRNAME)
SnippetsDir == Join(Resolve(ThemeRootOption), <<"snippets">>)

Base(name, ext) == [name |-> name, ext |-> ext]

DestBases ==
    { Base("a", "png"), Base("logo", "png"), Base("icon-a", "svg"), Base("icon-b", "svg"),
      Base("icon-a", "liquid"), Base("icon-b", "liquid"), Base("icon-old", "liquid"),
      Base("main", "js"), Base("main", "css"), Base("old", "js"),
      Base("manifest", "json"), Base(".vite", "") }

DestUniverse == { ResolveIn(d, b) : d \in {AssetsDir, SnippetsDir}, b \in DestBases }

Absent == [kind |-> "absent", of |-> NoFile]
Old == [kind |-> "old", of |-> NoFile]
HostFile == [kind |-> "host", of |-> NoFile]
CopyOf(f) == [kind |-> "copy", of |-> f]

\* existsSync(path)
Exists(fs, d) == d \in DOMAIN fs /\ fs[d] # Absent

\* fg(src, { ignore }) over the source tree
Fg(glob, ignore, fs) ==
    SelectSeq(SourceOrder,
              LAMBDA f : /\ f \in fs
                         /\ GlobMatches(glob, f)
                         /\ ~ \E g \in ignore : GlobMatches(g, f))

\* fg(cleanMatch, { ignore }) over the destination tree; ignore holds plain paths
FgDest(glob, ignore, fs) ==
    { d \in DOMAIN fs : fs[d] # Absent /\ GlobMatches(glob, d) /\ d \notin ignore }

\* readdirSync(dir): the names in the directory
ReadDir(fs, dir) == { Basename(d) : d \in { x \in DOMAIN fs : x.dir = dir /\ fs[x] # Absent } }

\* relative(base, target), for absolute paths
RECURSIVE CommonLen(_, _)
CommonLen(a, b) ==
    IF a = <<>> \/ b = <<>> \/ Head(a) # Head(b) THEN 0
    ELSE 1 + CommonLen(Tail(a), Tail(b))

Relative(base, target) ==
    LET n == CommonLen(base, target)
    IN  [i \in 1..(Len(base) - n) |-> ".."] \o SubSeq(target, n + 1, Len(target))

\* utils.ts 107-110
isChildDir(base, target) ==
    LET relation == Relative(base, target)
    IN  relation # <<>> /\ relation[1] # ".."

-----------------------------------------------------------------------------
(* File operations in flight and log records.  by: who issued the          *)
(* operation; cyc: the build cycle (build plugin) or the rule (serve       *)
(* plugin) it was issued for                                               *)

CpOp(src, dest, target, existed, by, cyc) ==
    [kind |-> "cp", src |-> src, dest |-> dest, by |-> by, existed |-> existed,
     cyc |-> cyc, force |-> target.force, errorOnExist |-> target.errorOnExist]

\* existed: was the file on disk when the deletion was requested
UnlinkOp(dest, by, cyc) ==
    [kind |-> "unlink", src |-> NoFile, dest |-> dest, by |-> by, existed |-> TRUE,
     cyc |-> cyc, force |-> TRUE, errorOnExist |-> FALSE]

LogRecord(event, path) == [event |-> event, path |-> path]

Logged(records) == log (+) records

One(x) == SetToBag({x})

RECURSIVE SeqToBag(_)
SeqToBag(q) == IF q = <<>> THEN EmptyBag ELSE One(Head(q)) (+) SeqToBag(Tail(q))

-----------------------------------------------------------------------------
(* The asset map (a JavaScript Map keeps insertion order; set() on a key   *)
(* that is present replaces the value in place)                            *)

MapKeys(map) == { map[i].src : i \in 1..Len(map) }

MapHas(map, f) == f \in MapKeys(map)

MapGet(map, f) == map[CHOOSE i \in 1..Len(map) : map[i].src = f]

MapSet(map, f, e) ==
    IF MapHas(map, f)
    THEN [i \in 1..Len(map) |-> IF map[i].src = f THEN e ELSE map[i]]
    ELSE Append(map, e)

MapDelete(map, f) == SelectSeq(map, LAMBDA e : e.src # f)

MapDests(map) == { map[i].dest : i \in 1..Len(map) }

-----------------------------------------------------------------------------
(* buildStart (build.ts 114-155)                                           *)

\* build.ts 124-125: the destination path of a file under a rule
DestOf(target, f) ==
    LET fileName == IF target.rename # "none"
                    THEN renameFile(Basename(f), f, target.rename)
                    ELSE Basename(f)
    IN  ResolveIn(target.dest, fileName)

\* the (rule, file) pairs in the order the two loops visit them
RECURSIVE ScanFrom(_, _, _)
ScanFrom(targets, i, fs) ==
    IF i > Len(targets) THEN <<>>
    ELSE LET files == Fg(targets[i].src, targets[i].ignore, fs)
         IN  [k \in 1..Len(files) |-> [rule |-> i, file |-> files[k]]]
             \o ScanFrom(targets, i + 1, fs)

\* visits the pairs last to first
ScanBackwards(targets, fs) ==
    LET items == ScanFrom(targets, 1, fs)
    IN  [k \in 1..Len(items) |-> items[Len(items) + 1 - k]]

Scan(targets, fs) == ScanFrom(targets, 1, fs)

IsDuplicateBuggy(dests, dest) == FALSE

\* build.ts 134: assetDestSet.has(resolvedDest)
IsDuplicate(dests, dest) == dest \in dests

\* one iteration of the inner loop
ScanStep(acc, item, targets, watching) ==
    LET target == targets[item.rule]
        dest   == DestOf(target, item.file)
        dirs   == IF watching THEN acc.dirs \cup {Normalize(Dirname(item.file))}
                  ELSE acc.dirs
    IN  IF IsDuplicate(acc.dests, dest)
        THEN [acc EXCEPT !.dirs = dirs, !.dups = Append(@, item.file)]
        ELSE [map   |-> MapSet(acc.map, item.file,
                               [src |-> item.file, rule |-> item.rule, dest |-> dest]),
              dests |-> acc.dests \cup {dest},
              files |-> acc.files \cup {Basename(item.file)},
              dirs  |-> dirs,
              dups  |-> acc.dups]

RECURSIVE ScanFold(_, _, _, _)
ScanFold(acc, items, targets, watching) ==
    IF items = <<>> THEN acc
    ELSE ScanFold(ScanStep(acc, Head(items), targets, watching), Tail(items),
                  targets, watching)

Watching == resolved.onWatch /\ host.watchMode

\* the rebuild without the assetDestSet.clear() of build.ts 118
RebuiltOnStaleDests ==
    ScanFold([map |-> <<>>, dests |-> assetDestSet, files |-> assetFilesSet,
              dirs |-> assetDirSet, dups |-> <<>>],
             Scan(resolved.targets, srcFS), resolved.targets, Watching)

\* the state buildStart leaves: the map and the dest set are cleared first,
\* assetFilesSet and assetDirSet are not
Rebuilt ==
    ScanFold([map |-> <<>>, dests |-> {}, files |-> assetFilesSet, dirs |-> assetDirSet,
              dups |-> <<>>],
             Scan(resolved.targets, srcFS), resolved.targets, Watching)

-----------------------------------------------------------------------------
(* The build plugin, bundle-listing variant (build.ts 16-241)              *)

MaxCycles == 2

ChunkEntry(fileName, imported) ==
    [fileName |-> fileName, type |-> "chunk", imported |-> imported]

\* what the host build emits into the theme assets directory
Bundles == { { ChunkEntry(Base("main", "js"), {Base("main", "css")}) } }

\* the file names of the bundle, with the files its chunks import
getBundleFiles(b) == UNION { {e.fileName} \cup e.imported : e \in b }

\* the target lists the build plugin is run with
BuildTargetLists ==
    { << StringTarget("images/*.png"),
         ObjectTarget("other/*.png", Undefined, Undefined, {}, "none") >>,
      << ObjectTarget("icons/icon-*.svg", <<"snippets">>, <<"icon-*.liquid">>, {}, "liquid") >>,
      << ObjectTarget("icons/icon-a.svg", Undefined, Undefined, {}, "liquid") >>,
      << ObjectTarget("**/*.png", Undefined, Undefined, {}, "fixed") >>,
      << StringTarget("images/*.png"),
         ObjectTarget("**/*.png", <<"snippets">>, Undefined, {"other/**"}, "none") >> }

\* a build that emits nothing
EmptyBundle == {}

\* the host configuration and the directory tree the build starts on; a root
\* directory is "present", "missing" (its parent exists) or "orphan" (its
\* parent is missing too)
BuildHost(watchMode, emptyOutDir, emitsNothing, publicDir, themeAssetsDir) ==
    [watchMode |-> watchMode, emptyOutDir |-> emptyOutDir, emitsNothing |-> emitsNothing,
     publicDir |-> publicDir, themeAssetsDir |-> themeAssetsDir]

HostConfigs ==
    { BuildHost(FALSE, TRUE, FALSE, "present", "present"),
      BuildHost(TRUE, TRUE, FALSE, "present", "present"),
      BuildHost(FALSE, FALSE, FALSE, "present", "present"),
      BuildHost(FALSE, TRUE, TRUE, "present", "present"),
      BuildHost(FALSE, TRUE, FALSE, "missing", "present"),
      BuildHost(FALSE, TRUE, FALSE, "present", "missing"),
      BuildHost(FALSE, TRUE, FALSE, "orphan", "present"),
      BuildHost(FALSE, TRUE, FALSE, "present", "orphan") }

\* the source files the rules are about
SourcesOf(targets) ==
    { f \in AllSources : \E i \in 1..Len(targets) : GlobMatches(targets[i].src, f) }

\* the paths the watcher can report
Watchable == SourcesOf(resolved.targets)

\* files earlier runs may have left in the destination tree: an old host file, an
\* old generated snippet, and the copies of the current sources
Leftovers(targets) ==
    { ResolveIn(AssetsDir, Base("old", "js")), ResolveIn(SnippetsDir, Base("icon-old", "liquid")) }
    \cup UNION { { DestOf(targets[i], f) : f \in { g \in AllSources : GlobMatches(targets[i].src, g) } } :
                  i \in 1..Len(targets) }

\* the destination tree before the first run: empty, or left by earlier runs
InitialDest(targets) ==
    { [d \in DestUniverse |-> Absent],
      [d \in DestUniverse |-> IF d \in Leftovers(targets) THEN Old ELSE Absent] }

ConstructedOn(srcs, dests) ==
    /\ resolved = resolveOptions(options)
    /\ pc = "constructed"
    /\ cycle = 0
    /\ clean = FALSE
    /\ bundle = {}
    /\ srcFS = srcs
    /\ destFS \in dests
    /\ assetMap = <<>>
    /\ assetDirSet = {}
    /\ assetDestSet = {}
    /\ assetFilesSet = {}
    /\ pending = EmptyBag
    /\ rejected = FALSE
    /\ log = EmptyBag
    /\ unnotified = {}
    /\ scanned = <<>>
    /\ handled = {}
    /\ manifestFile = Undefined
    /\ filesToDelete = EmptyBag
    /\ targetIndex = 0
    /\ built = [map |-> <<>>, dests |-> {}]
    /\ validFiles = {}

\* a root directory that does not exist holds no file
Constructed ==
    ConstructedOn(IF host.publicDir = "present" THEN SourcesOf(resolved.targets) ELSE {},
                  IF host.themeAssetsDir = "present" THEN InitialDest(resolved.targets)
                  ELSE { [d \in DestUniverse |-> Absent] })

Init ==
    /\ options \in { PluginOptions(ts, "undefined", w, "false") :
                       ts \in BuildTargetLists, w \in {"undefined", "false"} }
    /\ host \in HostConfigs
    /\ Constructed

ConfigCleaningAlways ==
    /\ pc = "constructed"
    /\ clean' = TRUE
    /\ pc' = "configured"
    /\ UNCHANGED <<options, resolved, built, validFiles, host, cycle, bundle, srcFS, destFS, assetMap,
                   assetDirSet, assetDestSet, assetFilesSet, pending, rejected, log,
                   unnotified, scanned, handled, manifestFile, filesToDelete, targetIndex>>

\* build.ts 53-90
Config ==
    /\ pc = "constructed"
    /\ clean' = (host.emptyOutDir /\ isChildDir(resolved.themeRoot, resolved.themeAssetsDir))
    /\ pc' = "configured"
    /\ UNCHANGED <<options, resolved, built, validFiles, host, cycle, bundle, srcFS, destFS, assetMap,
                   assetDirSet, assetDestSet, assetFilesSet, pending, rejected, log,
                   unnotified, scanned, handled, manifestFile, filesToDelete, targetIndex>>

\* build.ts 92-112: a missing root is announced and created; mkdirSync is not
\* recursive and throws when the parent of the directory does not exist
ConfigResolved ==
    /\ pc = "configured"
    /\ LET makePublicDir == Len(resolved.targets) > 0 /\ host.publicDir # "present"
           publicDirThrows == makePublicDir /\ host.publicDir = "orphan"
           makeAssetsDir == ~publicDirThrows /\ host.themeAssetsDir # "present"
           assetsDirThrows == makeAssetsDir /\ host.themeAssetsDir = "orphan"
       IN  /\ log' = Logged((IF makePublicDir
                             THEN One(LogRecord("createdDir", Dir(resolved.publicDir)))
                             ELSE EmptyBag)
                            (+) (IF makeAssetsDir
                                 THEN One(LogRecord("createdDir", Dir(resolved.themeAssetsDir)))
                                 ELSE EmptyBag))
           /\ host' = [host EXCEPT
                         !.publicDir = IF makePublicDir /\ ~publicDirThrows
                                       THEN "present" ELSE @,
                         !.themeAssetsDir = IF makeAssetsDir /\ ~assetsDirThrows
                                            THEN "present" ELSE @]
           /\ pc' = IF publicDirThrows \/ assetsDirThrows THEN "failed" ELSE "ready"
    /\ UNCHANGED <<options, resolved, built, validFiles, cycle, clean, bundle, srcFS, destFS, assetMap,
                   assetDirSet, assetDestSet, assetFilesSet, pending, rejected,
                   unnotified, scanned, handled, manifestFile, filesToDelete, targetIndex>>

\* the host starts a cycle: the first one, or a rebuild in watch mode once the
\* watcher has reported the changes
CycleMayStart ==
    \/ pc = "ready"
    \/ pc = "closed" /\ host.watchMode /\ cycle < MaxCycles /\ unnotified = {}

DuplicateWarnings(dups) ==
    IF resolved.silent THEN EmptyBag
    ELSE SeqToBag([i \in 1..Len(dups) |-> LogRecord("duplicate", dups[i])])

\* build.ts 114-155
BuildStart ==
    /\ CycleMayStart
    /\ LET r == Rebuilt
       IN  /\ assetMap' = r.map
           /\ assetDestSet' = r.dests
           /\ assetFilesSet' = r.files
           /\ assetDirSet' = r.dirs
           /\ log' = Logged(DuplicateWarnings(r.dups))
    /\ scanned' = Scan(resolved.targets, srcFS)
    /\ built' = [map |-> assetMap', dests |-> assetDestSet']
    /\ cycle' = cycle + 1
    /\ pc' = "started"
    /\ UNCHANGED <<options, resolved, validFiles, host, clean, bundle, srcFS, destFS, pending,
                   rejected, unnotified, handled, manifestFile, filesToDelete, targetIndex>>

\* the host build writes its output into the theme assets directory
Generate ==
    /\ pc = "started"
    /\ \E b \in (IF host.emitsNothing THEN {EmptyBundle} ELSE Bundles) :
          /\ bundle' = b
          /\ destFS' = [d \in DOMAIN destFS |->
                          IF d.dir = resolved.themeAssetsDir /\ Basename(d) \in getBundleFiles(b)
                          THEN HostFile ELSE destFS[d]]
    /\ pc' = "generated"
    /\ UNCHANGED <<options, resolved, built, validFiles, host, cycle, clean, srcFS, assetMap, assetDirSet,
                   assetDestSet, assetFilesSet, pending, rejected, log, unnotified, scanned, handled,
                   manifestFile, filesToDelete, targetIndex>>

\* build.ts 160-164
OldFiles ==
    { ResolveIn(resolved.themeAssetsDir, file) :
        file \in { b \in ReadDir(destFS, resolved.themeAssetsDir) :
                     b \notin getBundleFiles(bundle) /\ b \notin assetFilesSet } }

\* build.ts 168-178
MatchToDelete ==
    UNION { { file \in FgDest(resolved.targets[i].cleanMatch, {}, destFS) :
                file \notin assetDestSet } :
            i \in { j \in 1..Len(resolved.targets) :
                      resolved.targets[j].cleanMatch # Undefined } }

FilesToDelete == OldFiles \cup MatchToDelete

\* build.ts 182-185: unlink what exists
CleanupOps(files) == { UnlinkOp(file, "cleanup", cycle) : file \in { d \in files : Exists(destFS, d) } }

\* build.ts 157-191, up to the await of Promise.all
WriteBundle ==
    /\ pc = "generated"
    /\ IF clean /\ FilesToDelete # {}
       THEN /\ pending' = pending (+) SetToBag(CleanupOps(FilesToDelete))
            /\ rejected' = FALSE
            /\ pc' = "cleaning"
       ELSE /\ pc' = "written"
            /\ rejected' = FALSE
            /\ UNCHANGED pending
    /\ UNCHANGED <<options, resolved, built, validFiles, host, cycle, clean, bundle, srcFS, destFS, assetMap,
                   assetDirSet, assetDestSet, assetFilesSet, log, unnotified, scanned, handled,
                   manifestFile, filesToDelete, targetIndex>>

AwaitedOps == { op \in BagToSet(pending) : op.by = "cleanup" /\ op.cyc = cycle }

\* build.ts 182-190: Promise.all settles, writeBundle returns
WriteBundleReturns ==
    /\ pc = "cleaning"
    /\ rejected \/ AwaitedOps = {}
    /\ pc' = "written"
    /\ UNCHANGED <<options, resolved, built, validFiles, host, cycle, clean, bundle, srcFS, destFS, assetMap,
                   assetDirSet, assetDestSet, assetFilesSet, pending, rejected, log,
                   unnotified, scanned, handled, manifestFile, filesToDelete, targetIndex>>

\* a loop that awaits each cp and stops at the first one that fails
CopyOpsUntilFailure(map) ==
    LET missing == { i \in 1..Len(map) : map[i].src \notin srcFS }
        last == IF missing = {} THEN Len(map)
                ELSE CHOOSE i \in missing : \A k \in missing : i <= k
    IN  SeqToBag([i \in 1..last |->
                    CpOp(map[i].src, map[i].dest, resolved.targets[map[i].rule],
                         Exists(destFS, map[i].dest), "bulk", cycle)])

\* utils.ts 228-245: one cp per entry, none awaited
CopyOps(map) ==
    SeqToBag([i \in 1..Len(map) |->
                CpOp(map[i].src, map[i].dest, resolved.targets[map[i].rule],
                     Exists(destFS, map[i].dest), "bulk", cycle)])

\* build.ts 193-197
CloseBundle ==
    /\ pc = "written"
    /\ pending' = IF resolved.onBuild \/ (resolved.onWatch /\ host.watchMode)
                  THEN pending (+) CopyOps(assetMap) ELSE pending
    /\ pc' = "closed"
    /\ UNCHANGED <<options, resolved, built, validFiles, host, cycle, clean, bundle, srcFS, destFS, assetMap,
                   assetDirSet, assetDestSet, assetFilesSet, rejected, log, unnotified, scanned, handled,
                   manifestFile, filesToDelete, targetIndex>>

\* build.ts 236-239
CloseWatcher ==
    /\ pc = "closed"
    /\ host.watchMode
    /\ pending' = pending (+) CopyOps(assetMap)
    /\ pc' = "stopped"
    /\ UNCHANGED <<options, resolved, built, validFiles, host, cycle, clean, bundle, srcFS, destFS, assetMap,
                   assetDirSet, assetDestSet, assetFilesSet, rejected, log, unnotified, scanned, handled,
                   manifestFile, filesToDelete, targetIndex>>

WatcherRuns == host.watchMode /\ pc \in {"started", "generated", "cleaning", "written", "closed"}

\* a notification the watcher can deliver for the path: 'delete' for a file that
\* is gone, 'create' or 'update' for one that is there
Notifiable(f, event) == IF event = "delete" THEN f \notin srcFS ELSE f \in srcFS

\* a handler that does not look at the watched directories
WatchChangeUnwatched(fileChanged, event) ==
    /\ WatcherRuns
    /\ Notifiable(fileChanged, event)
    /\ unnotified' = unnotified \ {fileChanged}
    /\ IF MapHas(assetMap, fileChanged) /\ event = "delete"
       THEN /\ assetMap' = MapDelete(assetMap, fileChanged)
            /\ assetFilesSet' = assetFilesSet \ {Basename(fileChanged)}
       ELSE UNCHANGED <<assetMap, assetFilesSet>>
    /\ UNCHANGED <<options, resolved, built, validFiles, host, pc, cycle, clean, bundle, srcFS, destFS,
                   assetDirSet, assetDestSet, pending, handled, rejected, log, scanned,
                   manifestFile, filesToDelete, targetIndex>>

\* build.ts 200-234
WatchChange(fileChanged, event) ==
    /\ WatcherRuns
    /\ Notifiable(fileChanged, event)
    /\ unnotified' = unnotified \ {fileChanged}
    /\ IF /\ Dirname(fileChanged) \in assetDirSet
          /\ MapHas(assetMap, fileChanged)
          /\ event = "delete"
       THEN LET asset == MapGet(assetMap, fileChanged)
            IN  /\ pending' = IF Exists(destFS, asset.dest)
                              THEN pending (+) One(UnlinkOp(asset.dest, "watch", 0))
                              ELSE pending
                /\ handled' = IF Exists(destFS, asset.dest)
                              THEN handled \cup {[src |-> fileChanged, dest |-> asset.dest]}
                              ELSE handled
                /\ assetMap' = MapDelete(assetMap, fileChanged)
                /\ assetFilesSet' = assetFilesSet \ {Basename(fileChanged)}
       ELSE UNCHANGED <<pending, assetMap, assetFilesSet, handled>>
    /\ UNCHANGED <<options, resolved, built, validFiles, host, pc, cycle, clean, bundle, srcFS, destFS,
                   assetDirSet, assetDestSet, rejected, log, scanned,
                   manifestFile, filesToDelete, targetIndex>>

\* a source file is removed from disk
DeleteSource(f) ==
    /\ pc \in {"ready", "started", "generated", "cleaning", "written", "closed"}
    /\ f \in srcFS
    /\ srcFS' = srcFS \ {f}
    /\ unnotified' = IF WatcherRuns THEN unnotified \cup {f} ELSE unnotified
    /\ UNCHANGED <<options, resolved, built, validFiles, host, pc, cycle, clean, bundle, destFS, assetMap,
                   assetDirSet, assetDestSet, assetFilesSet, pending, rejected, log, scanned, handled,
                   manifestFile, filesToDelete, targetIndex>>

\* fs.cp(src, dest, { force, errorOnExist }) settles
CpFails(op) == op.src \notin srcFS \/ (Exists(destFS, op.dest) /\ op.errorOnExist /\ ~op.force)

CpWrites(op) == ~CpFails(op) /\ (op.force \/ ~Exists(destFS, op.dest))

\* utils.ts 238-244: the then / catch of a bulk cp
BulkCopyLog(op) ==
    IF CpFails(op)
    THEN One(LogRecord("copyError", op.dest))
         (+) (IF resolved.silent THEN EmptyBag ELSE One(LogRecord("error", op.dest)))
    ELSE IF ~op.existed THEN One(LogRecord("copied", op.dest)) ELSE EmptyBag

SettleCp(op) ==
    /\ op.kind = "cp"
    /\ pending' = pending (-) One(op)
    /\ destFS' = IF CpWrites(op) THEN [destFS EXCEPT ![op.dest] = CopyOf(op.src)] ELSE destFS
    /\ log' = Logged(BulkCopyLog(op))
    /\ UNCHANGED <<options, resolved, built, validFiles, host, pc, cycle, clean, bundle, srcFS, assetMap,
                   assetDirSet, assetDestSet, assetFilesSet, rejected, unnotified, scanned, handled,
                   manifestFile, filesToDelete, targetIndex>>

\* does this failure reject the Promise.all the hook is awaiting
Rejects(op) == op.by = "cleanup" /\ pc = "cleaning" /\ op.cyc = cycle /\ ~rejected

ErrorLog(op) == IF resolved.silent THEN EmptyBag ELSE One(LogRecord("error", op.dest))

\* build.ts 219-228 (watch) and 184-190 (cleanup): the then / catch of an unlink
UnlinkLog(op) ==
    IF Exists(destFS, op.dest)
    THEN IF op.by = "watch" THEN One(LogRecord("delete", op.dest)) ELSE EmptyBag
    ELSE IF op.by = "watch" \/ Rejects(op) THEN ErrorLog(op) ELSE EmptyBag

SettleUnlink(op) ==
    /\ op.kind = "unlink"
    /\ pending' = pending (-) One(op)
    /\ destFS' = [destFS EXCEPT ![op.dest] = Absent]
    /\ log' = Logged(UnlinkLog(op))
    /\ rejected' = (rejected \/ (~Exists(destFS, op.dest) /\ Rejects(op)))
    /\ UNCHANGED <<options, resolved, built, validFiles, host, pc, cycle, clean, bundle, srcFS, assetMap,
                   assetDirSet, assetDestSet, assetFilesSet, unnotified, scanned, handled,
                   manifestFile, filesToDelete, targetIndex>>

Events == {"create", "update", "delete"}

Next ==
    \/ Config
    \/ ConfigResolved
    \/ BuildStart
    \/ Generate
    \/ WriteBundle
    \/ WriteBundleReturns
    \/ CloseBundle
    \/ CloseWatcher
    \/ \E f \in Watchable, event \in Events : WatchChange(f, event)
    \/ \E f \in Watchable : DeleteSource(f)
    \/ \E op \in BagToSet(pending) : SettleCp(op)
    \/ \E op \in BagToSet(pending) : SettleUnlink(op)

Spec == Init /\ [][Next]_vars

-----------------------------------------------------------------------------
(* The build plugin, manifest-listing variant (src/unnamed/part_003)       *)

\* constants.js: the manifest path Vite uses when build.manifest is true
VITE_MANIFEST == <<".vite", "manifest.json">>

\* a name readdir returns, as the path string it spells
Spelled(file) ==
    IF file.ext = "" THEN <<file.name>>
    ELSE IF file = Base("manifest", "json") THEN <<"manifest.json">>
    ELSE <<"name.ext">>

ManifestBlock(key, file, css, imports) ==
    [key |-> key, file |-> file, css |-> css, imports |-> imports]

\* the manifest the host build writes
HostManifest == { ManifestBlock("src/main.js", Base("main", "js"), {Base("main", "css")}, {}) }

BundleEntry(key, fileName, type, source) ==
    [key |-> key, fileName |-> fileName, type |-> type, imported |-> {}, source |-> source]

\* the bundle of the manifest-listing build: the chunks and, if the host emits
\* it, the manifest asset under its path
ManifestBundles(file) ==
    LET chunks == { BundleEntry(<<"main.js">>, Base("main", "js"), "chunk", {}),
                    BundleEntry(<<"main.css">>, Base("main", "css"), "asset", {}) }
    IN  IF file = Undefined THEN { chunks }
        ELSE { chunks \cup { BundleEntry(file, Base("manifest", "json"), "asset", HostManifest) } }

\* bundle[key]
BundleAt(b, key) == { e \in b : e.key = key }

StartsWithUnderscore(key) == key \in {"_shared.js"}

\* a parse that keeps the file of an entry only when another entry imports it
getFilesInManifestImportedOnly(manifest) ==
    LET filesListedInImports == UNION { block.imports : block \in manifest }
    IN  UNION { (IF block.key \in filesListedInImports THEN {block.file} ELSE {})
                \cup block.css : block \in manifest }

\* part of utils (build.ts 453-485)
getFilesInManifest(manifest) ==
    LET filesListedInImports == UNION { block.imports : block \in manifest }
    IN  UNION { (IF StartsWithUnderscore(block.key) /\ block.key \in filesListedInImports
                 THEN {block.file} ELSE {})
                \cup block.css \cup {block.file} : block \in manifest }

ManifestTargetLists ==
    { << ObjectTarget("icons/icon-*.svg", <<"snippets">>, <<"icon-*.liquid">>, {}, "liquid") >>,
      << StringTarget("images/*.png"),
         ObjectTarget("other/*.png", Undefined, Undefined, {}, "none") >>,
      << ObjectTarget("icons/icon-*.svg", Undefined, Undefined, {}, "liquid") >> }

ManifestHost(watchMode, emptyOutDir, manifest, publicDirExists, emitsManifest) ==
    [watchMode |-> watchMode, emptyOutDir |-> emptyOutDir, manifest |-> manifest,
     publicDirExists |-> publicDirExists, emitsManifest |-> emitsManifest]

ManifestHostConfigs ==
    { ManifestHost(FALSE, TRUE, "true", TRUE, TRUE),
      ManifestHost(TRUE, TRUE, "true", TRUE, TRUE),
      ManifestHost(FALSE, TRUE, "manifest.json", TRUE, TRUE),
      ManifestHost(FALSE, TRUE, "false", TRUE, FALSE),
      ManifestHost(FALSE, FALSE, "true", TRUE, TRUE),
      ManifestHost(FALSE, TRUE, "true", FALSE, TRUE),
      ManifestHost(FALSE, TRUE, "true", TRUE, FALSE) }

\* the destination tree before the first run: empty, or holding an old generated
\* snippet and the copies of the current sources
ManifestInitialDest(targets) ==
    { [d \in DestUniverse |-> Absent],
      [d \in DestUniverse |->
         IF d \in Leftovers(targets) \ {ResolveIn(AssetsDir, Base("old", "js"))}
         THEN Old ELSE Absent] }

ManifestInit ==
    /\ options \in { PluginOptions(ts, "undefined", "undefined", "false") :
                       ts \in ManifestTargetLists }
    /\ host \in ManifestHostConfigs
    /\ ConstructedOn(IF host.publicDirExists THEN SourcesOf(resolved.targets) ELSE {},
                     ManifestInitialDest(resolved.targets))

\* part_003 54-96
ManifestConfig ==
    /\ pc = "constructed"
    /\ IF ~host.publicDirExists
       THEN pc' = "failed" /\ UNCHANGED clean
       ELSE pc' = "configured" /\ clean' = host.emptyOutDir
    /\ UNCHANGED <<options, resolved, built, validFiles, host, cycle, bundle, srcFS, destFS, assetMap,
                   assetDirSet, assetDestSet, assetFilesSet, pending, rejected, log,
                   unnotified, scanned, handled, manifestFile, filesToDelete, targetIndex>>

\* part_003 98-110
ManifestConfigResolved ==
    /\ pc = "configured"
    /\ manifestFile' = CASE host.manifest = "true"  -> VITE_MANIFEST
                         [] host.manifest = "false" -> Undefined
                         [] OTHER                   -> <<host.manifest>>
    /\ pc' = "ready"
    /\ UNCHANGED <<options, resolved, built, validFiles, host, cycle, clean, bundle, srcFS, destFS, assetMap,
                   assetDirSet, assetDestSet, assetFilesSet, pending, rejected, log,
                   unnotified, scanned, handled, filesToDelete, targetIndex>>

\* part_003 112-153: the same scan as the bundle-listing variant (join(target.dest,
\* fileName) of an absolute target.dest is the resolved path)
ManifestBuildStart ==
    /\ CycleMayStart
    /\ LET r == Rebuilt
       IN  /\ assetMap' = r.map
           /\ assetDestSet' = r.dests
           /\ assetFilesSet' = r.files
           /\ assetDirSet' = r.dirs
           /\ log' = Logged(DuplicateWarnings(r.dups))
    /\ scanned' = Scan(resolved.targets, srcFS)
    /\ built' = [map |-> assetMap', dests |-> assetDestSet']
    /\ cycle' = cycle + 1
    /\ pc' = "started"
    /\ UNCHANGED <<options, resolved, validFiles, host, clean, bundle, srcFS, destFS, pending,
                   rejected, unnotified, handled, manifestFile, filesToDelete, targetIndex>>

\* the name readdir(themeAssetsDir) reports for a bundle entry: the file, or the
\* directory its path starts with
TopName(e) == IF Len(e.key) > 1 THEN Base(e.key[1], "") ELSE e.fileName

\* the host build writes its output into the theme assets directory
ManifestGenerate ==
    /\ pc = "started"
    /\ \E b \in ManifestBundles(IF host.emitsManifest THEN manifestFile ELSE Undefined) :
          /\ bundle' = b
          /\ destFS' = [d \in DOMAIN destFS |->
                          IF /\ d.dir = resolved.themeAssetsDir
                             /\ Basename(d) \in { TopName(e) : e \in b }
                          THEN HostFile ELSE destFS[d]]
    /\ pc' = "generated"
    /\ UNCHANGED <<options, resolved, built, validFiles, host, cycle, clean, srcFS, assetMap, assetDirSet,
                   assetDestSet, assetFilesSet, pending, rejected, log, unnotified, scanned,
                   handled, manifestFile, filesToDelete, targetIndex>>

\* part_003 173-184
ManifestOldFiles(filesInManifest) ==
    { ResolveIn(resolved.themeAssetsDir, file) :
        file \in { b \in ReadDir(destFS, resolved.themeAssetsDir) :
                     ~ \/ b = Base(".vite", "")
                       \/ Spelled(b) = manifestFile
                       \/ b \in filesInManifest
                       \/ b \in assetFilesSet } }

\* part_003 186-190: one glob per Asset Map entry, ignoring that entry's destination;
\* every result is pushed, so a file can be listed more than once
RECURSIVE OtherRemovedFiles(_)
OtherRemovedFiles(map) ==
    IF map = <<>> THEN EmptyBag
    ELSE LET target == resolved.targets[Head(map).rule]
         IN  (IF target.cleanMatch = Undefined THEN EmptyBag
              ELSE SetToBag(FgDest(target.cleanMatch, {Head(map).dest}, destFS)))
             (+) OtherRemovedFiles(Tail(map))

ManifestFilesToDelete(filesInManifest) ==
    SetToBag(ManifestOldFiles(filesInManifest)) (+) OtherRemovedFiles(assetMap)

\* part_003 192-196: one unlink per listed file that exists
ManifestCleanupOps(files) ==
    [op \in { UnlinkOp(file, "cleanup", cycle) :
                file \in { d \in BagToSet(files) : Exists(destFS, d) } }
       |-> files[op.dest]]

\* part_003 155-207, up to the await of Promise.all
ManifestWriteBundle ==
    /\ pc = "generated"
    /\ rejected' = FALSE
    /\ IF ~clean
       THEN /\ pc' = "written"
            /\ UNCHANGED <<pending, log, filesToDelete>>
       ELSE IF manifestFile = Undefined
       THEN /\ log' = Logged(One(LogRecord("manifestNotEnabled", NoFile)))
            /\ pc' = "written"
            /\ UNCHANGED <<pending, filesToDelete>>
       ELSE IF \A e \in BundleAt(bundle, manifestFile) : e.source = {}
       THEN /\ log' = Logged(One(LogRecord("manifestNotFound", NoFile)))
            /\ pc' = "written"
            /\ UNCHANGED <<pending, filesToDelete>>
       ELSE LET manifestAsset == CHOOSE e \in BundleAt(bundle, manifestFile) : TRUE
                files == ManifestFilesToDelete(getFilesInManifest(manifestAsset.source))
            IN  /\ filesToDelete' = files
                /\ pending' = pending (+) ManifestCleanupOps(files)
                /\ pc' = "cleaning"
                /\ UNCHANGED log
    /\ UNCHANGED <<options, resolved, built, validFiles, host, cycle, clean, bundle, srcFS, destFS, assetMap,
                   assetDirSet, assetDestSet, assetFilesSet, unnotified, scanned, handled,
                   manifestFile, targetIndex>>

\* the 'delete' records of the results of Promise.all
DeleteLog(files) ==
    [r \in { LogRecord("delete", f) : f \in BagToSet(files) } |-> files[r.path]]

\* part_003 197-206: Promise.all settles, writeBundle returns
ManifestWriteBundleReturns ==
    /\ pc = "cleaning"
    /\ rejected \/ AwaitedOps = {}
    /\ log' = IF rejected THEN log ELSE Logged(DeleteLog(filesToDelete))
    /\ filesToDelete' = EmptyBag
    /\ pc' = "written"
    /\ UNCHANGED <<options, resolved, built, validFiles, host, cycle, clean, bundle, srcFS, destFS, assetMap,
                   assetDirSet, assetDestSet, assetFilesSet, pending, rejected,
                   unnotified, scanned, handled, manifestFile, targetIndex>>

\* the earlier copyAllAssetMap (build.ts 429-451): one cp per entry, none awaited
ManifestCopyOps(map) ==
    SeqToBag([i \in 1..Len(map) |->
                CpOp(map[i].src, map[i].dest, resolved.targets[map[i].rule],
                     Exists(destFS, map[i].dest), "manifest", cycle)])

\* part_003 209-213
ManifestCloseBundle ==
    /\ pc = "written"
    /\ pending' = IF resolved.onBuild \/ (resolved.onWatch /\ host.watchMode)
                  THEN pending (+) ManifestCopyOps(assetMap) ELSE pending
    /\ pc' = "closed"
    /\ UNCHANGED <<options, resolved, built, validFiles, host, cycle, clean, bundle, srcFS, destFS, assetMap,
                   assetDirSet, assetDestSet, assetFilesSet, rejected, log, unnotified, scanned,
                   handled, manifestFile, filesToDelete, targetIndex>>

\* part_003 239-242
ManifestCloseWatcher ==
    /\ pc = "closed"
    /\ host.watchMode
    /\ pending' = pending (+) ManifestCopyOps(assetMap)
    /\ pc' = "stopped"
    /\ UNCHANGED <<options, resolved, built, validFiles, host, cycle, clean, bundle, srcFS, destFS, assetMap,
                   assetDirSet, assetDestSet, assetFilesSet, rejected, log, unnotified, scanned,
                   handled, manifestFile, filesToDelete, targetIndex>>

\* part_003 215-237
ManifestWatchChange(fileChanged, event) ==
    /\ WatcherRuns
    /\ Notifiable(fileChanged, event)
    /\ unnotified' = unnotified \ {fileChanged}
    /\ IF /\ Dirname(fileChanged) \in assetDirSet
          /\ MapHas(assetMap, fileChanged)
          /\ event = "delete"
       THEN LET asset == MapGet(assetMap, fileChanged)
            IN  /\ assetMap' = MapDelete(assetMap, fileChanged)
                /\ assetFilesSet' = assetFilesSet \ {Basename(fileChanged)}
                /\ log' = Logged(One(LogRecord("delete", asset.dest)))
                /\ handled' = IF Exists(destFS, asset.dest)
                              THEN handled \cup {[src |-> fileChanged, dest |-> asset.dest]}
                              ELSE handled
       ELSE UNCHANGED <<assetMap, assetFilesSet, log, handled>>
    /\ UNCHANGED <<options, resolved, built, validFiles, host, pc, cycle, clean, bundle, srcFS, destFS,
                   assetDirSet, assetDestSet, pending, rejected, scanned,
                   manifestFile, filesToDelete, targetIndex>>

\* build.ts 437-450: the then / catch of a cp of the earlier copyAllAssetMap
ManifestCopyLog(op) ==
    IF CpFails(op)
    THEN One(LogRecord("copyError", op.dest)) (+) ErrorLog(op)
    ELSE One(LogRecord("copied", op.dest))

ManifestSettleCp(op) ==
    /\ op.kind = "cp"
    /\ pending' = pending (-) One(op)
    /\ destFS' = IF CpWrites(op) THEN [destFS EXCEPT ![op.dest] = CopyOf(op.src)] ELSE destFS
    /\ log' = Logged(ManifestCopyLog(op))
    /\ UNCHANGED <<options, resolved, built, validFiles, host, pc, cycle, clean, bundle, srcFS, assetMap,
                   assetDirSet, assetDestSet, assetFilesSet, rejected, unnotified, scanned,
                   handled, manifestFile, filesToDelete, targetIndex>>

ManifestNext ==
    \/ ManifestConfig
    \/ ManifestConfigResolved
    \/ ManifestBuildStart
    \/ ManifestGenerate
    \/ ManifestWriteBundle
    \/ ManifestWriteBundleReturns
    \/ ManifestCloseBundle
    \/ ManifestCloseWatcher
    \/ \E f \in Watchable, event \in Events : ManifestWatchChange(f, event)
    \/ \E f \in Watchable : DeleteSource(f)
    \/ \E op \in BagToSet(pending) : ManifestSettleCp(op)
    \/ \E op \in BagToSet(pending) : SettleUnlink(op)

ManifestSpec == ManifestInit /\ [][ManifestNext]_vars

-----------------------------------------------------------------------------
(* The serve plugin (serve.ts 23-138)                                      *)

\* the number of watcher notifications delivered in a run
MaxEvents == 2

ServeTargetLists ==
    { << StringTarget("images/*.png"),
         ObjectTarget("other/*.png", Undefined, Undefined, {}, "none") >>,
      << ObjectTarget("icons/icon-*.svg", <<"snippets">>, <<"icon-*.liquid">>, {}, "liquid") >>,
      << ObjectTarget("**/*.png", <<"snippets">>, Undefined, {"other/**"}, "none") >>,
      << ObjectTarget("**/*.png", <<"snippets">>, Undefined, {"other/**"}, "none"),
         ObjectTarget("other/*.png", Undefined, Undefined, {}, "none") >>,
      << WithForce(ObjectTarget("icons/icon-a.svg", Undefined, Undefined, {}, "none"), "false") >>,
      << WithForce(ObjectTarget("icons/icon-a.svg", Undefined, Undefined, {}, "none"), "error") >>,
      << ObjectTarget("icons/icon-a.svg", Undefined, Undefined, {}, "iconsToLiquid") >> }

ServeHost(publicDirExists, assetsDirExists) ==
    [publicDirExists |-> publicDirExists, assetsDirExists |-> assetsDirExists]

ServeInit ==
    /\ options \in { [PluginOptions(ts, "undefined", "undefined", "false") EXCEPT !.onServe = v] :
                       ts \in ServeTargetLists, v \in {"undefined", "false"} }
    /\ \/ /\ host = ServeHost(TRUE, TRUE)
          /\ ConstructedOn(SourcesOf(resolved.targets), ManifestInitialDest(resolved.targets))
       \/ /\ host = ServeHost(FALSE, FALSE)
          /\ ConstructedOn({}, { [d \in DestUniverse |-> Absent] })

\* serve.ts 38-40
ServeConfig ==
    /\ pc = "constructed"
    /\ pc' = "configured"
    /\ UNCHANGED <<options, resolved, built, validFiles, host, cycle, clean, bundle, srcFS, destFS, assetMap,
                   assetDirSet, assetDestSet, assetFilesSet, pending, rejected, log,
                   unnotified, scanned, handled, manifestFile, filesToDelete, targetIndex>>

\* serve.ts 42-56
ServeConfigResolved ==
    /\ pc = "configured"
    /\ LET makePublicDir == Len(resolved.targets) > 0 /\ ~host.publicDirExists
           makeAssetsDir == ~host.assetsDirExists
       IN  /\ log' = Logged((IF makePublicDir
                             THEN One(LogRecord("createdDir", Dir(resolved.publicDir)))
                             ELSE EmptyBag)
                            (+) (IF makeAssetsDir
                                 THEN One(LogRecord("createdDir", Dir(resolved.themeAssetsDir)))
                                 ELSE EmptyBag))
           /\ host' = ServeHost(host.publicDirExists \/ makePublicDir, TRUE)
    /\ pc' = "ready"
    /\ UNCHANGED <<options, resolved, built, validFiles, cycle, clean, bundle, srcFS, destFS, assetMap,
                   assetDirSet, assetDestSet, assetFilesSet, pending, rejected,
                   unnotified, scanned, handled, manifestFile, filesToDelete, targetIndex>>

\* serve.ts 70-82: the destinations of the files the rule matches
FilesToKeep(target) ==
    LET assetFiles == Fg(target.src, target.ignore, srcFS)
    IN  { DestOf(target, assetFiles[k]) : k \in 1..Len(assetFiles) }

\* a reconciliation that globs cleanMatch without ignoring the files to keep
ReconcileFilesKeepingNone(target) ==
    IF target.cleanMatch = Undefined \/ Fg(target.src, target.ignore, srcFS) = <<>>
    THEN {}
    ELSE FgDest(target.cleanMatch, {}, destFS)

\* serve.ts 68-85: what the reconciliation of the rule finds to delete
ReconcileFiles(target) ==
    IF target.cleanMatch = Undefined \/ Fg(target.src, target.ignore, srcFS) = <<>>
    THEN {}
    ELSE FgDest(target.cleanMatch, FilesToKeep(target), destFS)

\* the first rule at or after i whose reconciliation awaits deletions; 0 if none
NextReconcile(i) ==
    LET js == { j \in i..Len(resolved.targets) : ReconcileFiles(resolved.targets[j]) # {} }
    IN  IF js = {} THEN 0 ELSE CHOOSE j \in js : \A k \in js : j <= k

\* a call of copyAllAssets that awaits fast-glob
FgOp(rule) ==
    [kind |-> "fg", src |-> NoFile, dest |-> NoFile, by |-> "bulk", existed |-> FALSE,
     cyc |-> rule, force |-> TRUE, errorOnExist |-> FALSE]

\* serve.ts 67-107 from rule i on: run to the next awaited Promise.all, or to the
\* end of the hook, where copyAllAssets is called for every rule and not awaited
ServeContinueFrom(i) ==
    LET j == NextReconcile(i)
    IN  IF j # 0
        THEN LET files == ReconcileFiles(resolved.targets[j])
             IN  /\ targetIndex' = j
                 /\ filesToDelete' = SetToBag(files)
                 /\ pending' = pending (+) SetToBag({ UnlinkOp(f, "cleanup", j) : f \in files })
                 /\ pc' = "cleaning"
        ELSE /\ targetIndex' = Len(resolved.targets) + 1
             /\ filesToDelete' = EmptyBag
             /\ pending' = pending (+) SetToBag({ FgOp(k) : k \in 1..Len(resolved.targets) })
             /\ pc' = "serving"

\* serve.ts 58-108, up to the first await of Promise.all
ServeBuildStart ==
    /\ pc = "ready"
    /\ rejected' = FALSE
    /\ IF ~resolved.onServe
       THEN /\ log' = Logged(IF resolved.silent THEN EmptyBag
                             ELSE One(LogRecord("skipServe", NoFile)))
            /\ pc' = "serving"
            /\ UNCHANGED <<pending, filesToDelete, targetIndex>>
       ELSE /\ ServeContinueFrom(1)
            /\ UNCHANGED log
    /\ UNCHANGED <<options, resolved, built, validFiles, host, cycle, clean, bundle, srcFS, destFS, assetMap,
                   assetDirSet, assetDestSet, assetFilesSet, unnotified, scanned, handled,
                   manifestFile>>

ServeAwaitedOps ==
    { op \in BagToSet(pending) : op.kind = "unlink" /\ op.by = "cleanup" /\ op.cyc = targetIndex }

\* serve.ts 87-107: Promise.all settles, the loop goes on
ServeReconciled ==
    /\ pc = "cleaning"
    /\ rejected \/ ServeAwaitedOps = {}
    /\ log' = IF rejected THEN log ELSE Logged(DeleteLog(filesToDelete))
    /\ rejected' = FALSE
    /\ ServeContinueFrom(targetIndex + 1)
    /\ UNCHANGED <<options, resolved, built, validFiles, host, cycle, clean, bundle, srcFS, destFS, assetMap,
                   assetDirSet, assetDestSet, assetFilesSet, unnotified, scanned, handled,
                   manifestFile>>

\* utils.ts 172-211: fast-glob has answered; one cp per file, none awaited
copyAllAssets(op) ==
    /\ op.kind = "fg"
    /\ LET target == resolved.targets[op.cyc]
           assetFiles == Fg(target.src, target.ignore, srcFS)
       IN  pending' = (pending (-) One(op))
                      (+) SeqToBag([k \in 1..Len(assetFiles) |->
                                      CpOp(assetFiles[k], DestOf(target, assetFiles[k]), target,
                                           Exists(destFS, DestOf(target, assetFiles[k])),
                                           "bulk", op.cyc)])
    /\ UNCHANGED <<options, resolved, built, validFiles, host, pc, cycle, clean, bundle, srcFS, destFS, assetMap,
                   assetDirSet, assetDestSet, assetFilesSet, rejected, log, unnotified, scanned,
                   handled, manifestFile, filesToDelete, targetIndex>>

\* utils.ts 128-131 and 156-160: the destination copyAsset and deleteAsset compute
\* (the rename function gets the base name as its src argument)
EventDest(target, fileChanged) ==
    LET file == Basename(fileChanged)
    IN  ResolveIn(target.dest,
                  IF target.rename # "none" THEN renameFile(file, file, target.rename) ELSE file)

\* serve.ts 113: targets.find(...)
FindTarget(fileChanged) ==
    LET is == { i \in 1..Len(resolved.targets) : GlobMatches(resolved.targets[i].src, fileChanged) }
    IN  IF is = {} THEN 0 ELSE CHOOSE i \in is : \A k \in is : i <= k

Notification(fileChanged, event) == [src |-> fileChanged, event |-> event]

\* serve.ts 110-136, with copyAsset (utils.ts 121-147) and deleteAsset (149-170)
ServeWatchChange(fileChanged, event) ==
    /\ pc \in {"cleaning", "serving"}
    /\ Notifiable(fileChanged, event)
    /\ Cardinality(handled) < MaxEvents
    /\ Notification(fileChanged, event) \notin handled
    /\ handled' = handled \cup {Notification(fileChanged, event)}
    /\ LET i == FindTarget(fileChanged)
       IN  IF ~resolved.onServe \/ i = 0
           THEN UNCHANGED <<pending, log>>
           ELSE LET target == resolved.targets[i]
                IN  IF \E glob \in target.ignore : GlobMatches(glob, fileChanged)
                    THEN /\ log' = Logged(One(LogRecord("ignored", fileChanged)))
                         /\ UNCHANGED pending
                    ELSE /\ pending' = pending (+) One(
                                IF event = "delete"
                                THEN [UnlinkOp(EventDest(target, fileChanged), "watch", 0)
                                        EXCEPT !.existed =
                                            Exists(destFS, EventDest(target, fileChanged))]
                                ELSE CpOp(fileChanged, EventDest(target, fileChanged), target,
                                          FALSE, event, 0))
                         /\ UNCHANGED log
    /\ UNCHANGED <<options, resolved, built, validFiles, host, pc, cycle, clean, bundle, srcFS, destFS, assetMap,
                   assetDirSet, assetDestSet, assetFilesSet, rejected, unnotified, scanned,
                   manifestFile, filesToDelete, targetIndex>>

\* a source file is removed from disk while the dev server runs
ServeDeleteSource(f) ==
    /\ pc \in {"ready", "cleaning", "serving"}
    /\ f \in srcFS
    /\ srcFS' = srcFS \ {f}
    /\ UNCHANGED <<options, resolved, built, validFiles, host, pc, cycle, clean, bundle, destFS, assetMap,
                   assetDirSet, assetDestSet, assetFilesSet, pending, rejected, log, unnotified,
                   scanned, handled, manifestFile, filesToDelete, targetIndex>>

\* utils.ts 200-208 (bulk) and 141-146 (copyAsset): the then / catch of a cp
ServeCopyLog(op) ==
    IF CpFails(op)
    THEN One(LogRecord(IF op.by = "bulk" THEN "copyError" ELSE "createError", op.dest))
         (+) ErrorLog(op)
    ELSE IF op.by = "bulk"
         THEN (IF ~op.existed THEN One(LogRecord("copied", op.dest)) ELSE EmptyBag)
         ELSE One(LogRecord(op.by, op.dest))

ServeSettleCp(op) ==
    /\ op.kind = "cp"
    /\ pending' = pending (-) One(op)
    /\ destFS' = IF CpWrites(op) THEN [destFS EXCEPT ![op.dest] = CopyOf(op.src)] ELSE destFS
    /\ log' = Logged(ServeCopyLog(op))
    /\ UNCHANGED <<options, resolved, built, validFiles, host, pc, cycle, clean, bundle, srcFS, assetMap,
                   assetDirSet, assetDestSet, assetFilesSet, rejected, unnotified, scanned,
                   handled, manifestFile, filesToDelete, targetIndex>>

\* does this failure reject the Promise.all buildStart is awaiting
ServeRejects(op) == op.by = "cleanup" /\ pc = "cleaning" /\ op.cyc = targetIndex /\ ~rejected

\* serve.ts 89, 99-101 (reconciliation) and utils.ts 164-169 (deleteAsset): the
\* then / catch of an unlink
ServeUnlinkLog(op) ==
    IF op.by = "watch"
    THEN IF Exists(destFS, op.dest) THEN One(LogRecord("delete", op.dest))
         ELSE One(LogRecord("deleteError", op.dest)) (+) ErrorLog(op)
    ELSE IF ~Exists(destFS, op.dest) /\ ServeRejects(op) THEN ErrorLog(op) ELSE EmptyBag

ServeSettleUnlink(op) ==
    /\ op.kind = "unlink"
    /\ pending' = pending (-) One(op)
    /\ destFS' = [destFS EXCEPT ![op.dest] = Absent]
    /\ log' = Logged(ServeUnlinkLog(op))
    /\ rejected' = (rejected \/ (~Exists(destFS, op.dest) /\ ServeRejects(op)))
    /\ UNCHANGED <<options, resolved, built, validFiles, host, pc, cycle, clean, bundle, srcFS, assetMap,
                   assetDirSet, assetDestSet, assetFilesSet, unnotified, scanned, handled,
                   manifestFile, filesToDelete, targetIndex>>

ServeNext ==
    \/ ServeConfig
    \/ ServeConfigResolved
    \/ ServeBuildStart
    \/ ServeReconciled
    \/ \E op \in BagToSet(pending) : copyAllAssets(op)
    \/ \E f \in Watchable, event \in Events : ServeWatchChange(f, event)
    \/ \E f \in Watchable : ServeDeleteSource(f)
    \/ \E op \in BagToSet(pending) : ServeSettleCp(op)
    \/ \E op \in BagToSet(pending) : ServeSettleUnlink(op)

ServeSpec == ServeInit /\ [][ServeNext]_vars

-----------------------------------------------------------------------------
(* Claims about resolveOptions                                             *)

ResolvedOk == resolved.status = "ok"

\* C6: a cleanMatch of '*', '**', '**/*', '*.*' or '**/*.*' resolves to undefined,
\* whatever the rule's dest, rename, ignore and the silent flag are.
C6_GenericCleanMatchDisabled ==
    ResolvedOk =>
        \A i \in 1..Len(options.targets) :
            options.targets[i].cleanMatch \in
                { <<"*">>, <<"**">>, <<"**", "*">>, <<"*.*">>, <<"**", "*.*">> }
            => resolved.targets[i].cleanMatch = Undefined

C6_Witness ==
    /\ ResolvedOk
    /\ \E i \in 1..Len(options.targets) :
          /\ options.targets[i].cleanMatch = <<"**", "*.*">>
          /\ options.targets[i].dest = <<"snippets">>
          /\ options.targets[i].rename = "liquid"
          /\ options.silent = "false"
          /\ resolved.targets[i].cleanMatch = Undefined

\* C7: cleanMatch is defined only if the resolved destination differs from the
\* canonical asset directory; when defined it is <themeRoot>/<dest>/<cleanMatch>.
C7_CleanMatchOnlyOffAssetsDir ==
    ResolvedOk =>
        \A i \in 1..Len(resolved.targets) :
            resolved.targets[i].cleanMatch # Undefined =>
                /\ resolved.targets[i].dest # resolved.themeAssetsDir
                /\ resolved.targets[i].cleanMatch =
                       Normalize(resolved.themeRoot \o options.targets[i].dest
                                 \o options.targets[i].cleanMatch)

-----------------------------------------------------------------------------
(* Claims about the bundle-listing build plugin                            *)

Running == pc \notin {"options", "constructed", "configured", "ready"}

MapEntries == { assetMap[i] : i \in 1..Len(assetMap) }

\* C1: the end-of-cycle cleanup never deletes the destination of an entry that is
\* currently in the Asset Map.
C1_CleanupSparesAssetMap ==
    \A op \in BagToSet(pending) :
        (op.kind = "unlink" /\ op.by = "cleanup" /\ op.cyc = cycle)
        => op.dest \notin MapDests(assetMap)

\* C2: in the manifest-listing variant the end-of-cycle cleanup never deletes the
\* destination of an entry that is in the Asset Map, however many entries the
\* cleanMatch rule has.
C2_ManifestCleanupSparesAssetMap ==
    \A e \in MapEntries :
        resolved.targets[e.rule].cleanMatch # Undefined
        => ~ \E op \in BagToSet(pending) :
               op.kind = "unlink" /\ op.by = "cleanup" /\ op.cyc = cycle /\ op.dest = e.dest

\* C3: no two entries of the Asset Map have the same destination path.
C3_UniqueDestinations ==
    \A i, j \in 1..Len(assetMap) : assetMap[i].dest = assetMap[j].dest => i = j

\* the (rule, file) pairs of the last scan that resolve to the destination
Claimants(d) ==
    { scanned[k] : k \in { n \in 1..Len(scanned) :
                             DestOf(resolved.targets[scanned[n].rule], scanned[n].file) = d } }

GlobIndex(f) == CHOOSE k \in 1..Len(SourceOrder) : SourceOrder[k] = f

\* x comes from an earlier rule than y, or earlier in glob order from the same rule
Precedes(x, y) ==
    x.rule < y.rule \/ (x.rule = y.rule /\ GlobIndex(x.file) < GlobIndex(y.file))

IsWinner(x, d) == x \in Claimants(d) /\ \A y \in Claimants(d) \ {x} : Precedes(x, y)

Contested(d) == \E x, y \in Claimants(d) : x.file # y.file

C3_Witness ==
    /\ cycle = 2
    /\ pc = "closed"
    /\ Len(assetMap) >= 1
    /\ \E d \in MapDests(assetMap) : Contested(d)

\* C4: of the files that resolve to one destination, only the one from the
\* earlier rule (or earlier in glob order) is in the Asset Map that buildStart
\* produced, and the cycle's bulk copy writes no other file to that destination.
C4_FirstClaimWins ==
    Running =>
        /\ \A e \in MapEntries : \E x \in Claimants(e.dest) : IsWinner(x, e.dest) /\ x.file = e.src
        /\ \A d \in DestUniverse : \A x \in Claimants(d) :
              IsWinner(x, d) => (MapHas(assetMap, x.file) \/ x.file \notin srcFS)
        /\ \A op \in BagToSet(pending) :
              (op.kind = "cp" /\ op.cyc = cycle)
              => \E x \in Claimants(op.dest) : IsWinner(x, op.dest) /\ x.file = op.src

C4_Witness ==
    /\ pc = "closed"
    /\ \E d \in DestUniverse : \E x, y \in Claimants(d) :
          /\ x.file # y.file
          /\ IsWinner(x, d)
          /\ y.file \in srcFS
          /\ destFS[d] = CopyOf(x.file)
          /\ ~MapHas(assetMap, y.file)

\* host output, or the basename (of the source or of its destination) of a file
\* that this cycle's buildStart put in the Asset Map
Justified(b) ==
    \/ b \in getBundleFiles(bundle)
    \/ \E e \in MapEntries : b = Basename(e.src) \/ b = Basename(e.dest)
    \/ \E k \in 1..Len(scanned) :
          \/ b = Basename(scanned[k].file)
          \/ b = Basename(DestOf(resolved.targets[scanned[k].rule], scanned[k].file))

BeingDeleted(d) == \E op \in BagToSet(pending) : op.kind = "unlink" /\ op.dest = d

\* C8: when the cleanup of a cycle completes without I/O failure, the theme assets
\* directory holds no file that is neither host output nor the basename of a file
\* of the current Asset Map.
C8_NoStaleAssetAfterCleanup ==
    [][ (pc \in {"generated", "cleaning"} /\ pc' = "written" /\ clean /\ ~rejected')
        => \A b \in ReadDir(destFS', resolved.themeAssetsDir) :
               Justified(b)' \/ BeingDeleted(ResolveIn(resolved.themeAssetsDir, b))' ]_vars

\* C9: the Protected Basenames Set is exactly the set of destination basenames of
\* the files in the Asset Map.
C9_ProtectedBasenamesExact ==
    Running => assetFilesSet = { Basename(e.dest) : e \in MapEntries }

Quiescent == BagToSet(pending) = {}

\* C10: once the delete notification of a tracked file whose destination copy
\* exists has been processed and all operations have completed, the copy is gone,
\* the entry is gone, and one 'delete' record has been logged for it.
C10_DeleteHandledOnce ==
    \A h \in handled :
        Quiescent =>
            /\ destFS[h.dest] # CopyOf(h.src)
            /\ destFS[h.dest] # Old
            /\ ~MapHas(assetMap, h.src)
            /\ CopiesIn(LogRecord("delete", h.dest), log)
                   = Cardinality({ x \in handled : x.dest = h.dest })

-----------------------------------------------------------------------------
(* Claims about the serve plugin                                           *)

\* rule i matches the file and does not ignore it
Takes(i, f) ==
    /\ GlobMatches(resolved.targets[i].src, f)
    /\ ~ \E glob \in resolved.targets[i].ignore : GlobMatches(glob, f)

\* the file reaches the destination through a rule declared after a rule through
\* which another source file, still on disk, reaches the same destination
LaterClaim(f, d) ==
    \E j \in 1..Len(resolved.targets) :
        /\ Takes(j, f)
        /\ DestOf(resolved.targets[j], f) = d
        /\ \E i \in 1..(j - 1) : \E y \in srcFS \ {f} :
              Takes(i, y) /\ DestOf(resolved.targets[i], y) = d

\* C5: the initial bulk sync writes to a destination two rules resolve to only the
\* file of the earlier rule, in whatever order the copies complete.
C5_ServeFirstRuleWins ==
    handled = {} =>
        \A d \in DOMAIN destFS : destFS[d].kind = "copy" => ~LaterClaim(destFS[d].of, d)

-----------------------------------------------------------------------------
(* Claims about cleanMatch cleanup                                         *)

\* the destinations of the files the cycle's buildStart got from fast-glob
ScannedDests ==
    { DestOf(resolved.targets[scanned[k].rule], scanned[k].file) : k \in 1..Len(scanned) }

\* the files on disk that the rule's cleanMatch matches and no file of the cycle owns
Unowned(i, fs, map) ==
    { d \in FgDest(resolved.targets[i].cleanMatch, {}, fs) :
        d \notin MapDests(map) /\ d \notin ScannedDests }

\* C11: when the cleanup of a cycle has run and completes without I/O failure,
\* every file that matches the cleanMatch of a rule and is not the destination of
\* an Asset Map entry has been deleted, however many sources the rule matches.
C11_CleanMatchRemovesUnowned ==
    [][ (pc = "cleaning" /\ pc' = "written" /\ clean /\ ~rejected)
        => \A i \in 1..Len(resolved.targets) :
              resolved.targets[i].cleanMatch # Undefined
              => \A d \in Unowned(i, destFS', assetMap') : BeingDeleted(d)' ]_vars

\* the destinations of the source files rule i has matched at some time of the run
RuleDests(i) ==
    { DestOf(resolved.targets[i], f) : f \in { g \in AllSources : Takes(i, g) } }

\* C12: once the serve plugin's buildStart has completed without I/O failure, no
\* file matching a rule's cleanMatch remains on disk unless it is an output of the
\* rule's source scan, also when the scan is empty.
C12_ServeCleanMatchReconciled ==
    [][ (pc \in {"ready", "cleaning"} /\ pc' = "serving" /\ resolved.onServe /\ ~rejected)
        => \A i \in 1..Len(resolved.targets) :
              resolved.targets[i].cleanMatch # Undefined
              => \A d \in FgDest(resolved.targets[i].cleanMatch, {}, destFS') :
                    d \in RuleDests(i) \/ BeingDeleted(d)' ]_vars

\* C13: a create or update notification for a path is handed to the Copy Engine
\* whenever some rule's source glob matches the path and that rule's ignore
\* patterns do not exclude it, whatever rules are declared before that rule.
C13_ServeNotificationCopied ==
    [][ \A n \in handled' \ handled :
          (/\ n.event \in {"create", "update"}
           /\ resolved.onServe
           /\ \E i \in 1..Len(resolved.targets) : Takes(i, n.src))
          => \E op \in BagToSet(pending') :
                /\ op.kind = "cp"
                /\ op.src = n.src
                /\ op.by = n.event
                /\ CopiesIn(op, pending') = CopiesIn(op, pending) + 1 ]_vars

-----------------------------------------------------------------------------
(* Claims about the copy policy                                            *)

\* the force option the user gave the rule a copy was issued for
PolicyOf(op) ==
    options.targets[IF op.by = "bulk" THEN op.cyc ELSE FindTarget(op.src)].force

\* the copy has settled in this step
Settles(op) == CopiesIn(op, pending') < CopiesIn(op, pending)

\* the catch of the copy has logged its failure in this step
FailureLogged(op) ==
    \E e \in {"copyError", "createError"} :
        CopiesIn(LogRecord(e, op.dest), log') > CopiesIn(LogRecord(e, op.dest), log)

\* C14: a copy onto a destination that exists overwrites it without failing under
\* force true (the default), leaves it unchanged without failing under force
\* false, and fails and leaves it unchanged under force 'error'.
C14_OverwritePolicyHonoured ==
    [][ \A op \in BagToSet(pending) :
          (op.kind = "cp" /\ Settles(op) /\ Exists(destFS, op.dest) /\ op.src \in srcFS)
          => CASE PolicyOf(op) = "false" ->
                    destFS'[op.dest] = destFS[op.dest] /\ ~FailureLogged(op)
               [] PolicyOf(op) = "error" ->
                    destFS'[op.dest] = destFS[op.dest] /\ FailureLogged(op)
               [] OTHER ->
                    destFS'[op.dest] = CopyOf(op.src) /\ ~FailureLogged(op) ]_vars

-----------------------------------------------------------------------------
(* Claims about delete notifications                                       *)

\* the path is the destination of a source file of a rule whose dest is not the
\* theme assets directory and that has no cleanMatch
KeptOnDelete(d) ==
    \E i \in 1..Len(resolved.targets) :
        /\ resolved.targets[i].dest # resolved.themeAssetsDir
        /\ resolved.targets[i].cleanMatch = Undefined
        /\ d \in RuleDests(i)

\* C15: a delete notification for a source file of a rule whose dest is not the
\* theme assets directory and that has no cleanMatch does not delete the copy
\* generated for the file.
C15_DeleteKeepsCopyOffAssets ==
    [][ \A op \in BagToSet(pending) :
          (op.kind = "unlink" /\ op.by = "watch" /\ Settles(op) /\ KeptOnDelete(op.dest))
          => destFS'[op.dest] = destFS[op.dest] ]_vars

-----------------------------------------------------------------------------
(* Claims about skipping the cleanup                                       *)

\* the host-build output of the cycle cannot be determined: the manifest is
\* disabled or not in the bundle (manifest-listing variant), or the bundle is
\* empty (bundle-listing variant)
OutputUndetermined ==
    IF "manifest" \in DOMAIN host
    THEN \/ manifestFile = Undefined
         \/ \A e \in BundleAt(bundle, manifestFile) : e.source = {}
    ELSE bundle = EmptyBundle

\* the unlinks the cleanup of the current cycle has issued
CleanupUnlinks ==
    { op \in BagToSet(pending) : op.kind = "unlink" /\ op.by = "cleanup" /\ op.cyc = cycle }

\* C16: in a cycle whose host-build output cannot be determined the end-of-cycle
\* cleanup deletes no file, neither from the asset directory nor through a
\* cleanMatch.
C16_NoCleanupWithoutOutput ==
    (pc \in {"cleaning", "written", "closed"} /\ OutputUndetermined) => CleanupUnlinks = {}

\* the host's emptyOutDir is false, or the theme assets directory is not strictly
\* nested under themeRoot
CleanDisabled ==
    ~host.emptyOutDir \/ ~isChildDir(resolved.themeRoot, resolved.themeAssetsDir)

\* C17: when emptyOutDir is false or the theme assets directory is not strictly
\* nested under themeRoot (a directory is not nested under itself), clean is
\* false and writeBundle deletes no file in any cycle, cleanMatch or not.
C17_NoCleanupWhenCleanDisabled ==
    /\ ~isChildDir(resolved.themeRoot, resolved.themeRoot)
    /\ CleanDisabled =>
          /\ clean = FALSE
          /\ \A op \in BagToSet(pending) : ~(op.kind = "unlink" /\ op.by = "cleanup")

C17_Witness ==
    /\ ~host.emptyOutDir
    /\ pc = "closed"
    /\ Exists(destFS, ResolveIn(resolved.themeAssetsDir, Base("old", "js")))
    /\ \E i \in 1..Len(resolved.targets) :
          /\ resolved.targets[i].cleanMatch # Undefined
          /\ ResolveIn(SnippetsDir, Base("icon-old", "liquid"))
                \in FgDest(resolved.targets[i].cleanMatch, {}, destFS)

-----------------------------------------------------------------------------
(* getFilesToDeleteInThemeAssets (utils.ts 248-292) over bundles and        *)
(* directory listings                                                      *)

\* a bundle entry: its key (the file name, as a path), the name readdir would
\* report for a top-level file, its type and what viteMetadata says it imports
PreRendered(key, fileName, type, importedCss, importedAssets) ==
    [key |-> key, fileName |-> fileName, type |-> type,
     importedCss |-> importedCss, importedAssets |-> importedAssets]

\* utils.ts 258-285: the names one bundle entry contributes to filesInBundle; a
\* key with a directory in it equals no name readdir returns
FilesOfEntry(e) ==
    IF Len(e.key) > 1 /\ e.key[1] = ".vite" THEN {Base(".vite", "")}
    ELSE IF e.type = "asset" THEN (IF Len(e.key) = 1 THEN {e.fileName} ELSE {})
    ELSE IF e.type = "chunk"
         THEN (IF Len(e.key) = 1 THEN {e.fileName} ELSE {})
              \cup e.importedCss \cup e.importedAssets
    ELSE {}

\* utils.ts 248-292
getFilesToDeleteInThemeAssets(themeAssetsDir, b, fs) ==
    IF b = {} THEN {}
    ELSE LET filesInAssetsDir == ReadDir(fs, themeAssetsDir)
             filesInBundle == UNION { FilesOfEntry(e) : e \in b }
         IN  { ResolveIn(themeAssetsDir, file) : file \in filesInAssetsDir \ filesInBundle }

MainChunk ==
    PreRendered(<<"main.js">>, Base("main", "js"), "chunk",
                {Base("main", "css")}, {Base("logo", "png")})

\* the bundles the host build hands over: nothing, a chunk with its imports, the
\* same with the manifest at its default path or at a path of the user's, and a
\* lone stylesheet
ListingBundles ==
    { {},
      { MainChunk },
      { MainChunk, PreRendered(VITE_MANIFEST, Base("manifest", "json"), "asset", {}, {}) },
      { MainChunk, PreRendered(<<"manifest.json">>, Base("manifest", "json"), "asset", {}, {}) },
      { PreRendered(<<"main.css">>, Base("main", "css"), "asset", {}, {}) } }

\* the names the theme assets directory can hold when writeBundle runs
ListingNames ==
    { Base("main", "js"), Base("main", "css"), Base("logo", "png"), Base("old", "js"),
      Base(".vite", ""), Base("manifest", "json") }

ListingInit ==
    /\ options = PluginOptions(<< StringTarget("images/*.png") >>, "undefined", "undefined", "false")
    /\ resolved = resolveOptions(options)
    /\ host = BuildHost(FALSE, TRUE, FALSE, "present", "present")
    /\ pc = "generated"
    /\ cycle = 1
    /\ clean = TRUE
    /\ bundle \in ListingBundles
    /\ srcFS = {}
    /\ \E names \in SUBSET ListingNames :
          destFS = [d \in DestUniverse |->
                      IF d.dir = AssetsDir /\ Basename(d) \in names THEN Old ELSE Absent]
    /\ assetMap = <<>>
    /\ assetDirSet = {}
    /\ assetDestSet = {}
    /\ assetFilesSet = {}
    /\ pending = EmptyBag
    /\ rejected = FALSE
    /\ log = EmptyBag
    /\ unnotified = {}
    /\ scanned = <<>>
    /\ handled = {}
    /\ manifestFile = Undefined
    /\ filesToDelete = EmptyBag
    /\ targetIndex = 0
    /\ built = [map |-> <<>>, dests |-> {}]
    /\ validFiles = {}

\* const filesToDelete = await getFilesToDeleteInThemeAssets(themeAssetsDir, bundle)
ListFilesToDelete ==
    /\ pc = "generated"
    /\ filesToDelete' = SetToBag(getFilesToDeleteInThemeAssets(resolved.themeAssetsDir,
                                                               bundle, destFS))
    /\ pc' = "listed"
    /\ UNCHANGED <<options, resolved, built, validFiles, host, cycle, clean, bundle, srcFS, destFS, assetMap,
                   assetDirSet, assetDestSet, assetFilesSet, pending, rejected, log,
                   unnotified, scanned, handled, manifestFile, targetIndex>>

ListingNext == ListFilesToDelete

ListingSpec == ListingInit /\ [][ListingNext]_vars

-----------------------------------------------------------------------------
(* Claims about the deletion set                                           *)

\* the names the bundle declares as host output
DeclaredOutput(b) ==
    UNION { (IF Len(e.key) = 1 THEN {e.fileName} ELSE {})
            \cup e.importedCss \cup e.importedAssets : e \in b }

\* the host's bookkeeping paths: the .vite directory and the manifest file of
\* the bundle
ReservedNames(b) ==
    { Base(".vite", "") }
    \cup { e.fileName : e \in { x \in b : Len(x.key) = 1 /\ x.fileName = Base("manifest", "json") } }

\* C18: the deletion set holds no file of the asset directory whose name is
\* declared as host output, and neither the .vite directory nor the manifest
\* file.
C18_DeletionSetSparesHostOutput ==
    pc = "listed" =>
        \A d \in BagToSet(filesToDelete) :
            d.dir = resolved.themeAssetsDir
            => /\ Basename(d) \notin DeclaredOutput(bundle)
               /\ Basename(d) \notin ReservedNames(bundle)

\* ---------------------------------------------------------------------------
\* Claims about the directories the build starts on

Announced(path) ==
    CopiesIn(LogRecord("createdDir", Dir(path)), log')
        > CopiesIn(LogRecord("createdDir", Dir(path)), log)

\* C19: when the source root (publicDir) or the destination root (the theme
\* assets directory) does not exist at startup, configResolved creates it and
\* logs a warning, and startup never ends in a fatal error, whatever part of
\* the directory tree above the missing root exists.
C19_MissingRootsCreated ==
    [][ pc = "configured"
        => /\ pc' = "ready"
           /\ host'.publicDir = "present"
           /\ host'.themeAssetsDir = "present"
           /\ host.publicDir # "present" => Announced(resolved.publicDir)
           /\ host.themeAssetsDir # "present" => Announced(resolved.themeAssetsDir) ]_vars

-----------------------------------------------------------------------------
(* Rebuilds in watch mode, with source files coming back between them      *)

\* the target lists the rebuilds are run with
RebuildTargetLists ==
    { << ObjectTarget("icons/icon-a.svg", Undefined, Undefined, {}, "liquid") >>,
      << ObjectTarget("**/*.png", Undefined, Undefined, {}, "fixed") >> }

RebuildInit ==
    /\ options \in { PluginOptions(ts, "undefined", "undefined", "false") :
                       ts \in RebuildTargetLists }
    /\ host = BuildHost(TRUE, TRUE, FALSE, "present", "present")
    /\ ConstructedOn(SourcesOf(resolved.targets), { [d \in DestUniverse |-> Absent] })

\* a source file that was removed is written to disk again, once the watcher
\* has reported its removal
RestoreSource(f) ==
    /\ pc \in {"ready", "started", "generated", "cleaning", "written", "closed"}
    /\ f \notin srcFS
    /\ f \notin unnotified
    /\ srcFS' = srcFS \cup {f}
    /\ unnotified' = IF WatcherRuns THEN unnotified \cup {f} ELSE unnotified
    /\ UNCHANGED <<options, resolved, built, validFiles, host, pc, cycle, clean, bundle, destFS, assetMap,
                   assetDirSet, assetDestSet, assetFilesSet, pending, rejected, log, scanned,
                   handled, manifestFile, filesToDelete, targetIndex>>

RebuildNext ==
    \/ Next
    \/ \E f \in Watchable : RestoreSource(f)

RebuildSpec == RebuildInit /\ [][RebuildNext]_vars

\* ---------------------------------------------------------------------------
\* Claims about rebuilding the Asset Map

\* a buildStart runs on a file system that shows every rule the files the
\* previous buildStart saw
RebuildsOnSameFiles ==
    /\ cycle >= 1
    /\ cycle' = cycle + 1
    /\ Scan(resolved.targets, srcFS) = scanned

DynamicDestRules(opts) ==
    { i \in 1..Len(opts.targets) :
        /\ opts.targets[i].kind = "object"
        /\ opts.targets[i].dest # Undefined
        /\ \E k \in 1..Len(opts.targets[i].dest) :
              opts.targets[i].dest[k] \in DynamicSegments }

\* C21: resolveOptions fails with a configuration error, before any resolved
\* rule is returned, exactly when some object rule has a dest that is a dynamic
\* glob pattern; otherwise it returns one resolved rule per declared rule, in
\* declaration order.
C21_DynamicDestRejected ==
    pc = "constructed" =>
        IF DynamicDestRules(options) # {}
        THEN resolved.status = "error" /\ "targets" \notin DOMAIN resolved
        ELSE /\ resolved.status = "ok"
             /\ Len(resolved.targets) = Len(options.targets)
             /\ \A i \in 1..Len(options.targets) :
                   /\ resolved.targets[i].src
                        = Join(Resolve(options.publicDir), <<options.targets[i].src>>)
                   /\ resolved.targets[i].rename = options.targets[i].rename

\* a two-rule list whose second rule has a dynamic dest was rejected
C21_Witness ==
    /\ pc = "constructed"
    /\ resolved.status = "error"
    /\ Len(options.targets) = 2
    /\ DynamicDestRules(options) = {2}

\* the object rule { src: s } for the bare string s
AsObjectRule(target) == ObjectTarget(target.src, Undefined, Undefined, {}, "none")

ResolvedAlone(target) == resolveOptions([options EXCEPT !.targets = <<target>>]).targets[1]

\* C22: a rule declared as a bare string s resolves to exactly the same
\* resolved rule as the object rule {src: s}: same src, destination equal to the
\* theme assets directory, cleanMatch undefined, empty ignore list, no rename,
\* dereference true, overwrite allowed, timestamps preserved.
C22_StringRuleIsObjectRule ==
    (pc = "constructed" /\ resolved.status = "ok") =>
        \A i \in 1..Len(options.targets) :
            options.targets[i].kind = "string"
            => LET r == resolved.targets[i]
               IN  /\ r = ResolvedAlone(AsObjectRule(options.targets[i]))
                   /\ r.src = Join(resolved.publicDir, <<options.targets[i].src>>)
                   /\ r.dest = resolved.themeAssetsDir
                   /\ r.cleanMatch = Undefined
                   /\ r.ignore = {}
                   /\ r.rename = "none"
                   /\ r.dereference
                   /\ r.force /\ ~r.errorOnExist /\ r.mode = 0
                   /\ r.preserveTimestamps

\* a string rule was resolved next to an object rule
C22_Witness ==
    /\ pc = "constructed"
    /\ resolved.status = "ok"
    /\ Len(options.targets) = 2
    /\ options.targets[1].kind = "object"
    /\ options.targets[2].kind = "string"

\* ---------------------------------------------------------------------------
\* Claims about operations that settle in any order

\* no copy, unlink or directory operation has failed so far
NoFailureLogged ==
    \A r \in BagToSet(log) : r.event \notin {"copyError", "createError", "error"}

\* C23: in build watch mode, assuming no I/O failure, once a cycle's
\* closeBundle has run and every outstanding copy and unlink (those issued by
\* earlier delete notifications included) has completed, in any completion
\* order, the destination file of every Asset Map entry exists on disk.
C23_MapDestinationsExistWhenSettled ==
    (host.watchMode /\ pc = "closed" /\ pending = EmptyBag /\ NoFailureLogged)
        => \A i \in 1..Len(assetMap) : Exists(destFS, assetMap[i].dest)

ErrorLogged(op) ==
    CopiesIn(LogRecord("error", op.dest), log') > CopiesIn(LogRecord("error", op.dest), log)

\* C24: when a deletion finds that its file has already been removed by
\* another pending operation (between the existence check and the unlink, or by
\* an unlink issued from an earlier watch notification), the deletion is treated
\* as success: no error record is emitted and the cycle continues.
C24_AlreadyGoneIsSuccess ==
    [][ \A op \in BagToSet(pending) :
          (op.kind = "unlink" /\ Settles(op) /\ ~Exists(destFS, op.dest))
          => /\ ~ErrorLogged(op)
             /\ rejected' = rejected ]_vars

\* ---------------------------------------------------------------------------
\* Claims about deleting what is not there

DeleteFailureLogged(op) ==
    \E e \in {"deleteError", "error"} :
        CopiesIn(LogRecord(e, op.dest), log') > CopiesIn(LogRecord(e, op.dest), log)

\* C25: in every deletion path (end-of-cycle cleanup, serve startup
\* reconciliation, watch delete notifications in serve and build mode),
\* deleting a destination file that does not exist is a no-op: it emits no
\* error record and changes nothing on disk.
C25_DeletingAbsentIsNoOp ==
    [][ \A op \in BagToSet(pending) :
          (op.kind = "unlink" /\ Settles(op) /\ ~op.existed /\ ~Exists(destFS, op.dest))
          => /\ destFS' = destFS
             /\ ~DeleteFailureLogged(op) ]_vars

\* ---------------------------------------------------------------------------
\* Claims about the rule a file is handled by

\* the rules whose source glob matches the file and which do not ignore it
Takers(f) == { i \in 1..Len(resolved.targets) : Takes(i, f) }

SeveralDestinations(f) ==
    Cardinality({ DestOf(resolved.targets[i], f) : i \in Takers(f) }) > 1

\* C26: for a source file matched by the source globs of several rules with
\* different destinations, the rule buildStart records for it is the first
\* matching rule in declaration order, the same rule the linear scan of the
\* watch event handler selects for that path.
C26_MapRecordsFirstMatchingRule ==
    \A k \in 1..Len(assetMap) :
        SeveralDestinations(assetMap[k].src)
        => /\ \A i \in Takers(assetMap[k].src) : assetMap[k].rule <= i
           /\ assetMap[k].rule = FindTarget(assetMap[k].src)

\* the operations a step has issued
Issued == { op \in BagToSet(pending') : CopiesIn(op, pending') > CopiesIn(op, pending) }

\* C27: for every rule with a rename function and every source file, the
\* destination path computed when handling a watch notification for that file
\* (copyAsset / deleteAsset) equals the destination path computed for the same
\* file by the scan-based paths (copyAllAssets, buildStart): the rename
\* function receives the same base name, extension and full source path.
C27_WatchDestIsScanDest ==
    [][ \A n \in handled' \ handled :
          (/\ "event" \in DOMAIN n
           /\ FindTarget(n.src) # 0
           /\ resolved.targets[FindTarget(n.src)].rename # "none")
          => \A op \in Issued :
                op.dest = DestOf(resolved.targets[FindTarget(n.src)], n.src) ]_vars

\* ---------------------------------------------------------------------------
\* Claims about failures in a batch

\* closeBundle or closeWatcher runs copyAllAssetMap in this step
BulkCopyRuns ==
    \/ pc = "written" /\ pc' = "closed" /\ (resolved.onBuild \/ Watching)
    \/ pc = "closed" /\ pc' = "stopped"

\* C28: in a bulk copy a copy is attempted for every entry of the batch,
\* regardless of the failure of any other entry's copy, and a copy failure never
\* makes the calling hook fail.
C28_BulkCopyAttemptsEveryEntry ==
    [][ /\ BulkCopyRuns
           => \A k \in 1..Len(assetMap) :
                 \E op \in Issued : /\ op.kind = "cp"
                                    /\ op.src = assetMap[k].src
                                    /\ op.dest = assetMap[k].dest
        /\ \A op \in BagToSet(pending) :
              (op.kind = "cp" /\ Settles(op) /\ CpFails(op))
              => /\ pending' = pending (-) One(op)
                 /\ pc' = pc
                 /\ rejected' = rejected ]_vars

\* one copy of a two-entry batch has failed, the other entry was copied
C28_Witness ==
    /\ pc = "closed"
    /\ Len(built.map) = 2
    /\ \E i, j \in 1..2 :
          /\ i # j
          /\ CopiesIn(LogRecord("copyError", built.map[i].dest), log) > 0
          /\ Exists(destFS, built.map[j].dest)
          /\ destFS[built.map[j].dest] = CopyOf(built.map[j].src)

\* C29: in the end-of-cycle cleanup, an I/O failure while deleting one file
\* never prevents the deletion of the other files of the same deletion set from
\* being attempted and never makes writeBundle fail; the failure is logged.
C29_CleanupFailureIsolatedAndLogged ==
    [][ \A op \in BagToSet(pending) :
          (/\ op.kind = "unlink" /\ op.by = "cleanup"
           /\ Settles(op) /\ ~Exists(destFS, op.dest)
           /\ ~resolved.silent)
          => /\ pending' = pending (-) One(op)
             /\ pc' # "failed"
             /\ ErrorLogged(op) ]_vars

\* ---------------------------------------------------------------------------
\* Claims about destinations several sources reach

\* a source file still on disk that some rule takes to the destination
StillProducedBy(d) ==
    { f \in srcFS : \E i \in 1..Len(resolved.targets) :
                       Takes(i, f) /\ DestOf(resolved.targets[i], f) = d }

\* C30: in serve mode, a delete notification for one source file never removes
\* a destination file to which another still-existing source file, matched and
\* not ignored by some rule, also resolves.
C30_ServeDeleteSparesSharedDestination ==
    [][ \A op \in BagToSet(pending) :
          (/\ op.kind = "unlink" /\ op.by = "watch" /\ Settles(op)
           /\ Exists(destFS, op.dest)
           /\ StillProducedBy(op.dest) # {})
          => destFS'[op.dest] = destFS[op.dest] ]_vars

\* ---------------------------------------------------------------------------
\* Claims about the sets kept beside the Asset Map

\* C31: in build mode, after every buildStart rebuild and after every
\* watchChange notification, the Destination Dedup Set is exactly the set of
\* destination paths of the entries currently in the Asset Map.
C31_DedupSetIsMapDestinations ==
    Running => assetDestSet = MapDests(assetMap)

\* ---------------------------------------------------------------------------
\* Claims about the log records of deletions and copies

DeleteLogged(d) ==
    CopiesIn(LogRecord("delete", d), log') > CopiesIn(LogRecord("delete", d), log)

\* the step takes the file off the disk
RemovedNow(d) == Exists(destFS, d) /\ ~Exists(destFS', d)

\* the Promise.all of a deletion batch settles in this step
BatchReturns == pc = "cleaning" /\ pc' # "cleaning"

\* a deletion of the batch the running hook awaits
OfBatch(op) ==
    /\ op.kind = "unlink" /\ op.by = "cleanup" /\ pc = "cleaning"
    /\ op.cyc = (IF targetIndex = 0 THEN cycle ELSE targetIndex)

\* C32: a 'delete' record is emitted for a path if and only if the operation
\* that logs it removed that path from disk (manifest-variant cleanup and watch
\* handler, serve startup reconciliation): a step that logs 'delete' for a path
\* removes it or closes the batch that was to remove it, and a deletion of a
\* batch removes its file only while the batch can still log it, that is, not
\* after another deletion of the batch has failed.
C32_DeleteLoggedIffRemoved ==
    [][ /\ \A d \in DestUniverse :
             DeleteLogged(d) =>
                 \/ RemovedNow(d)
                 \/ BatchReturns /\ d \in BagToSet(filesToDelete)
        /\ \A op \in BagToSet(pending) :
             (OfBatch(op) /\ Settles(op) /\ RemovedNow(op.dest)) => ~rejected ]_vars

\* the records a copy that succeeded writes: 'create' or 'update' (copyAsset),
\* 'copied' (logCopySuccess of the bulk copies)
SuccessEvents == {"create", "update", "copied"}

SuccessLogged(op, e) ==
    CopiesIn(LogRecord(e, op.dest), log') - CopiesIn(LogRecord(e, op.dest), log)

\* C33: every successful copy emits exactly one success record carrying the
\* destination path, for an incremental copy (copyAsset) and for an entry of a
\* bulk copy (copyAllAssetMap, copyAllAssets), whether or not the destination
\* existed before the copy.
C33_SuccessfulCopyLoggedOnce ==
    [][ \A op \in BagToSet(pending) :
          (op.kind = "cp" /\ Settles(op) /\ ~CpFails(op))
          => \E e \in SuccessEvents :
                /\ SuccessLogged(op, e) = 1
                /\ \A o \in SuccessEvents \ {e} : SuccessLogged(op, o) = 0 ]_vars

\* ---------------------------------------------------------------------------
\* Claims about the order of cleanup and bulk copy

\* the step in which the cycle's bulk copy is issued: closeBundle in build mode,
\* the copyAllAssets loop that ends buildStart in serve mode
BulkCopyIssued ==
    \/ pc = "written" /\ pc' = "closed"
    \/ pc \in {"ready", "cleaning"} /\ pc' = "serving"

\* an unlink of this cycle's cleanup (the serve plugin runs one cycle and
\* numbers its deletions by rule)
CleanupOfThisCycle(op) ==
    op.kind = "unlink" /\ op.by = "cleanup" /\ (cycle = 0 \/ op.cyc = cycle)

\* C34: within one cycle, every unlink issued by the cycle's cleanup has
\* settled before the cycle's bulk copy is issued (writeBundle's deletions
\* before closeBundle's copies, the reconciliation's deletions before
\* copyAllAssets).
C34_CleanupSettlesBeforeBulkCopy ==
    [][ BulkCopyIssued => \A op \in BagToSet(pending) : ~CleanupOfThisCycle(op) ]_vars

\* ---------------------------------------------------------------------------
\* Claims about the toggles

\* the build plugin with onBuild and onWatch both switched off, one-shot and in
\* watch mode
ToggleInit ==
    /\ options \in { PluginOptions(ts, "false", "false", "false") : ts \in BuildTargetLists }
    /\ host \in { BuildHost(w, TRUE, FALSE, "present", "present") : w \in BOOLEAN }
    /\ Constructed

ToggleSpec == ToggleInit /\ [][Next]_vars

\* the serve plugin's host records its two roots
ServeMode == "assetsDirExists" \in DOMAIN host

\* the step issues no operation of these kinds
NothingIssued(kinds) ==
    \A op \in BagToSet(pending') :
        op.kind \in kinds => CopiesIn(op, pending') <= CopiesIn(op, pending)

\* C35: with onBuild and onWatch both false the build plugin issues no copy in
\* any hook (closeBundle, closeWatcher), one-shot and in watch mode; with
\* onServe false the serve plugin issues no copy and no deletion.
C35_TogglesOffIssueNothing ==
    [][ /\ (~ServeMode /\ ~resolved.onBuild /\ ~resolved.onWatch)
             => NothingIssued({"cp"})
        /\ (ServeMode /\ ~resolved.onServe)
             => NothingIssued({"cp", "fg", "unlink"}) ]_vars

\* ---------------------------------------------------------------------------
\* Claims about notifications that are dropped

\* two rules that take files to the same destination
NotifyBuildLists ==
    { ts \in BuildTargetLists :
        Len(ts) = 2 /\ \A i \in 1..Len(ts) : ts[i].dest = Undefined }

\* the rules that ignore part of what they match or reconcile at startup
NotifyServeLists ==
    { ts \in ServeTargetLists :
        \E i \in 1..Len(ts) : ts[i].ignore # {} \/ ts[i].cleanMatch # Undefined }

\* the build plugin in watch mode and the dev server, whose public directory
\* also holds files no rule is about
NotifyInit ==
    \/ /\ options \in { PluginOptions(ts, "undefined", w, "false") :
                          ts \in NotifyBuildLists, w \in {"undefined", "false"} }
       /\ host = BuildHost(TRUE, TRUE, FALSE, "present", "present")
       /\ Constructed
    \/ /\ options \in { PluginOptions(ts, "undefined", "undefined", "false") :
                          ts \in NotifyServeLists }
       /\ host = ServeHost(TRUE, TRUE)
       /\ ConstructedOn(AllSources, ManifestInitialDest(resolved.targets))

\* the watcher of the dev server reports every file of the public directory
NotifyNext ==
    \/ ~ServeMode /\ Config
    \/ ~ServeMode /\ ConfigResolved
    \/ ~ServeMode /\ BuildStart
    \/ ~ServeMode /\ Generate
    \/ ~ServeMode /\ WriteBundle
    \/ ~ServeMode /\ WriteBundleReturns
    \/ ~ServeMode /\ CloseBundle
    \/ ~ServeMode /\ CloseWatcher
    \/ ~ServeMode /\ \E f \in Watchable, event \in Events : WatchChange(f, event)
    \/ ~ServeMode /\ \E f \in Watchable : DeleteSource(f)
    \/ ~ServeMode /\ \E op \in BagToSet(pending) : SettleCp(op)
    \/ ~ServeMode /\ \E op \in BagToSet(pending) : SettleUnlink(op)
    \/ ServeMode /\ ServeConfig
    \/ ServeMode /\ ServeConfigResolved
    \/ ServeMode /\ ServeBuildStart
    \/ ServeMode /\ ServeReconciled
    \/ ServeMode /\ \E op \in BagToSet(pending) : copyAllAssets(op)
    \/ ServeMode /\ \E f \in AllSources, event \in Events : ServeWatchChange(f, event)
    \/ ServeMode /\ \E f \in Watchable : ServeDeleteSource(f)
    \/ ServeMode /\ \E op \in BagToSet(pending) : ServeSettleCp(op)
    \/ ServeMode /\ \E op \in BagToSet(pending) : ServeSettleUnlink(op)

NotifySpec == NotifyInit /\ [][NotifyNext]_vars

\* build.ts 203-217: the notification is not for a deletion of a tracked file
\* in a watched directory
BuildDrops(fileChanged, event) ==
    \/ Dirname(fileChanged) \notin assetDirSet
    \/ ~MapHas(assetMap, fileChanged)
    \/ event # "delete"

\* serve.ts 113-120: no rule matches the path, or the rule found ignores it
ServeDrops(fileChanged) ==
    \/ FindTarget(fileChanged) = 0
    \/ \E glob \in resolved.targets[FindTarget(fileChanged)].ignore :
          GlobMatches(glob, fileChanged)

\* C36: a watch notification that is dropped leaves the state unchanged: in
\* build mode a notification whose directory is not watched, whose path is not
\* in the Asset Map or whose event is not 'delete' changes neither the Asset
\* Map, the Dedup Set, the Protected Basenames Set nor any destination file,
\* and issues nothing; in serve mode a notification that matches no rule or is
\* ignored by the rule found issues no copy and no deletion.
C36_DroppedNotificationChangesNothing ==
    [][ /\ \A f \in AllSources, event \in Events :
             (~ServeMode /\ WatchChange(f, event) /\ BuildDrops(f, event))
             => UNCHANGED <<assetMap, assetDestSet, assetFilesSet, destFS, pending>>
        /\ \A f \in AllSources, event \in Events :
             (ServeMode /\ ServeWatchChange(f, event) /\ ServeDrops(f))
             => UNCHANGED <<destFS, pending>> ]_vars

\* the delete notification of a tracked file was delivered and dropped, its
\* directory not being watched: the entry and its destination file are still there
C36_Witness ==
    /\ ~ServeMode
    /\ ~resolved.onWatch
    /\ \E f \in MapKeys(assetMap) :
          /\ f \notin srcFS
          /\ f \notin unnotified
          /\ Basename(f) \in assetFilesSet
          /\ Exists(destFS, MapGet(assetMap, f).dest)

\* the dev server has dropped a notification for a path no rule matches and one
\* has been ignored by the rule found
ServeDropsReached ==
    /\ ServeMode
    /\ \E n \in handled : "event" \in DOMAIN n /\ ServeDrops(n.src)

\* ---------------------------------------------------------------------------
\* Claims about the startup reconciliation of the dev server

\* C37: the startup reconciliation of a rule with cleanMatch never deletes a
\* file that is the computed destination (after rename) of a source file in
\* the rule's current source scan.
C37_ReconciliationKeepsScannedDestinations ==
    [][ \A op \in Issued :
          (op.kind = "unlink" /\ op.by = "cleanup")
          => LET target == resolved.targets[op.cyc]
                 assetFiles == Fg(target.src, target.ignore, srcFS)
             IN  \A k \in 1..Len(assetFiles) : op.dest # DestOf(target, assetFiles[k]) ]_vars

\* the reconciliation is deleting a stale file while a file that matches
\* cleanMatch and is the destination of a scanned source stays on disk
C37_Witness ==
    /\ ServeMode
    /\ pc = "cleaning"
    /\ \E op \in BagToSet(pending) :
          /\ op.kind = "unlink" /\ op.by = "cleanup" /\ op.cyc = targetIndex
          /\ \E d \in FilesToKeep(resolved.targets[targetIndex]) :
                /\ Exists(destFS, d)
                /\ GlobMatches(resolved.targets[targetIndex].cleanMatch, d)
                /\ d \notin BagToSet(filesToDelete)

-----------------------------------------------------------------------------
(* ManifestFilesSpec: getFilesInManifest applied to the manifests a host   *)
(* build can write                                                         *)

\* the blocks a manifest can hold: two entry modules and a shared chunk that
\* is listed under a key starting with '_'; entries may import the shared
\* chunk and carry a stylesheet
ManifestBlocks ==
    { ManifestBlock("src/main.js", Base("main", "js"), css, imports) :
        css \in SUBSET {Base("main", "css")}, imports \in SUBSET {"_shared.js"} }
    \cup { ManifestBlock("src/page.js", Base("page", "js"), css, imports) :
             css \in SUBSET {Base("main", "css")}, imports \in SUBSET {"_shared.js"} }
    \cup { ManifestBlock("_shared.js", Base("shared", "js"), css, imports) :
             css \in SUBSET {Base("shared", "css")}, imports \in SUBSET {"src/main.js"} }

\* a manifest has one block per key
Manifests ==
    { m \in SUBSET ManifestBlocks : \A x \in m, y \in m : x.key = y.key => x = y }

ManifestFilesInit ==
    /\ options = PluginOptions(<< StringTarget("images/*.png") >>, "undefined", "undefined", "false")
    /\ resolved = resolveOptions(options)
    /\ host = ManifestHost(FALSE, TRUE, "true", TRUE, TRUE)
    /\ pc = "generated"
    /\ cycle = 1
    /\ clean = TRUE
    /\ \E m \in Manifests :
          bundle = { BundleEntry(VITE_MANIFEST, Base("manifest", "json"), "asset", m) }
    /\ srcFS = {}
    /\ destFS = [d \in DestUniverse |-> Absent]
    /\ assetMap = <<>>
    /\ assetDirSet = {}
    /\ assetDestSet = {}
    /\ assetFilesSet = {}
    /\ pending = EmptyBag
    /\ rejected = FALSE
    /\ log = EmptyBag
    /\ unnotified = {}
    /\ scanned = <<>>
    /\ handled = {}
    /\ manifestFile = VITE_MANIFEST
    /\ filesToDelete = EmptyBag
    /\ targetIndex = 0
    /\ built = [map |-> <<>>, dests |-> {}]
    /\ validFiles = {}

\* part_003 163-170: const filesInManifest = getFilesInManifest(manifest)
ParseManifest ==
    /\ pc = "generated"
    /\ \E manifestAsset \in BundleAt(bundle, manifestFile) :
          validFiles' = getFilesInManifest(manifestAsset.source)
    /\ pc' = "listed"
    /\ UNCHANGED <<options, resolved, built, host, cycle, clean, bundle, srcFS, destFS, assetMap,
                   assetDirSet, assetDestSet, assetFilesSet, pending, rejected, log,
                   unnotified, scanned, handled, manifestFile, filesToDelete, targetIndex>>

ManifestFilesNext == ParseManifest

ManifestFilesSpec == ManifestFilesInit /\ [][ManifestFilesNext]_vars

\* the manifest the bundle carries
ParsedManifest == (CHOOSE e \in BundleAt(bundle, manifestFile) : TRUE).source

====
